---- MODULE Spec2Model ----
(***************************************************************************)
(* The prompt store of crates/assistant/src/prompt_library.rs:             *)
(* PromptStore (two LMDB tables, a metadata cache, background write        *)
(* tasks), its migration from the v1 tables, the throttled save loop of    *)
(* PromptLibrary::save_prompt, and the shared future of the global store   *)
(* set by init.                                                            *)
(*                                                                         *)
(* Encodings.  Option<T> is a sequence of length at most one: <<>> is     *)
(* None and <<v>> is Some(v).  A string is a sequence of one-character     *)
(* strings.  PromptId::User{uuid} is <<"User", uuid>> and                 *)
(* PromptId::EditWorkflow is <<"EditWorkflow">>.  A timestamp is a         *)
(* natural number; every read of Utc::now() returns a value larger than    *)
(* every earlier read.                                                     *)
(***************************************************************************)
EXTENDS Integers, Sequences, FiniteSets, TLC

VARIABLES
    opened,           \* TRUE once PromptStore::new has returned Ok(store)
    metadata_db,      \* table "metadata.v2": PromptId -> Option<PromptMetadata>
    bodies_db,        \* table "bodies.v2":   PromptId -> Option<String>
    metadata_v1_db,   \* table "metadata" (legacy): [exists, rows: Uuid -> Option<PromptMetadataV1>]
    bodies_v1_db,     \* table "bodies" (legacy):   [exists, rows: Uuid -> Option<String>]
    metadata_cache,   \* PromptStore::metadata_cache: [metadata, metadata_by_id]
    tasks,            \* write tasks spawned on the background executor, not yet run
    clock,            \* the last value read from the clock (Utc::now, executor.timer)
    prompt_editors,   \* PromptLibrary::prompt_editors: PromptId -> Option<PromptEditor>
    pending_load,     \* PromptLibrary::pending_load: the load_prompt call in progress, if any
    loops,            \* foreground tasks running the loop spawned by save_prompt
    last,             \* the last call made or task finished, with its result
    latest,           \* history: PromptId -> clock value of the last mutating store call
    submitted,        \* history: PromptId -> the edits passed to save_prompt, in order
    writes,           \* history: PromptId -> edit numbers passed to PromptStore::save by the loop
    commits,          \* history: PromptId -> edit numbers whose write transaction committed
    failed,           \* history: PromptId -> TRUE once a background write or delete of id failed
    runs,             \* history: number of completed runs of upgrade_dbs
    after_first,      \* history: the v2 tables as the first run of upgrade_dbs left them
    before_run,       \* history: the v2 tables as the last open or run of upgrade_dbs found them
    creating,         \* foreground tasks of new_prompt and duplicate_prompt awaiting their save
    pending_search,   \* the task spawned by PromptStore::search, not yet run, if any
    found,            \* what the last search returned, with what it was computed from
    global_store,     \* the GlobalPromptStore global: the shared future set by init, if any
    spawned,          \* number of PromptStore::new tasks spawned so far
    new_err,          \* TRUE once PromptStore::new has returned Err
    handles           \* caller -> the future PromptStore::global gave it and what its await returned

storeVars == <<opened, metadata_db, bodies_db, metadata_v1_db, bodies_v1_db,
               metadata_cache, tasks, clock, last, latest>>
libraryVars == <<prompt_editors, pending_load, loops, submitted, writes, commits, failed>>
upgradeVars == <<runs, after_first, before_run>>
uiVars == <<creating, pending_search, found>>
globalVars == <<global_store, spawned, new_err, handles>>
vars == <<storeVars, libraryVars, upgradeVars, uiVars, globalVars>>

----------------------------------------------------------------------------
(* Bounds *)

MaxCalls == 2        \* mutating calls made on the store directly
MaxClock == 6        \* ticks of the clock while the save loop runs
MaxTasks == 2        \* background tasks spawned and not yet run
MaxEdits == 3        \* edits submitted to save_prompt per prompt
MaxSavedAt == 2      \* largest saved_at of a record found on disk at start
MaxRuns == 2         \* runs of upgrade_dbs over one disk image
MaxCallers == 2      \* callers of PromptStore::global

----------------------------------------------------------------------------
(* Option, strings *)

None == <<>>
Some(v) == <<v>>
IsSome(o) == Len(o) = 1
Unwrap(o) == o[1]

Whitespace == {" ", "\t", "\n", "\r"}

RECURSIVE trim_start(_)
trim_start(s) ==
    IF s # <<>> /\ Head(s) \in Whitespace THEN trim_start(Tail(s)) ELSE s

RECURSIVE trim_end(_)
trim_end(s) ==
    IF s # <<>> /\ s[Len(s)] \in Whitespace
    THEN trim_end(SubSeq(s, 1, Len(s) - 1)) ELSE s

trim(s) == trim_end(trim_start(s))

\* LineEnding::normalize: every "\r\n" and every lone "\r" becomes "\n".
RECURSIVE normalize(_)
normalize(s) ==
    IF s = <<>> THEN <<>>
    ELSE IF Head(s) = "\r"
         THEN IF Len(s) >= 2 /\ s[2] = "\n"
              THEN <<"\n">> \o normalize(SubSeq(s, 3, Len(s)))
              ELSE <<"\n">> \o normalize(Tail(s))
         ELSE <<Head(s)>> \o normalize(Tail(s))

\* Byte order of the characters used in titles.
CharCode(c) ==
    CASE c = "\t" -> 9 [] c = "\n" -> 10 [] c = "\r" -> 13 [] c = " " -> 32
      [] c = "0" -> 48 [] c = "1" -> 49 [] c = "2" -> 50 [] c = "3" -> 51
      [] c = "4" -> 52 [] c = "5" -> 53 [] c = "6" -> 54 [] c = "7" -> 55
      [] c = "8" -> 56 [] c = "9" -> 57
      [] c = "A" -> 65 [] c = "B" -> 66
      [] c = "c" -> 99 [] c = "o" -> 111 [] c = "p" -> 112
      [] c = "x" -> 120 [] c = "y" -> 121

\* Ordering::Less / Equal / Greater as -1 / 0 / 1.
cmp_int(a, b) == IF a < b THEN -1 ELSE IF a > b THEN 1 ELSE 0

RECURSIVE cmp_str(_, _)
cmp_str(s, t) ==
    IF s = <<>> THEN (IF t = <<>> THEN 0 ELSE -1)
    ELSE IF t = <<>> THEN 1
    ELSE IF Head(s) = Head(t) THEN cmp_str(Tail(s), Tail(t))
    ELSE cmp_int(CharCode(Head(s)), CharCode(Head(t)))

\* Option<SharedString>::cmp: None sorts before every Some.
cmp_title(a, b) ==
    IF ~IsSome(a) THEN (IF IsSome(b) THEN -1 ELSE 0)
    ELSE IF ~IsSome(b) THEN 1
    ELSE cmp_str(Unwrap(a), Unwrap(b))

----------------------------------------------------------------------------
(* Identifiers, values *)

Uuids == {"u1", "u2", "u3"}

\* The uuids of the prompts on the disk images that the migration and the
\* library start from; the other one is left for PromptId::new to return.
DiskUuids == {"u1", "u2"}
User(uuid) == <<"User", uuid>>
EditWorkflow == <<"EditWorkflow">>
UserIds == {User(u) : u \in Uuids}
PromptIds == UserIds \cup {EditWorkflow}

is_built_in(id) == id[1] # "User"

Titles == {None, Some(<<"A">>), Some(<<"B">>)}
Bodies == {<<"x">>, <<"y", "\r", "\n">>}

\* The arguments of the calls made on the store directly.
StoreIds == {User("u1"), EditWorkflow}
StoreTitles == {None, Some(<<"A">>)}

PromptMetadata(id, title, default, saved_at) ==
    [id |-> id, title |-> title, default |-> default, saved_at |-> saved_at]

----------------------------------------------------------------------------
(* MetadataCache *)

Bijections(n) == {f \in [1..n -> 1..n] : \A i, j \in 1..n : f[i] = f[j] => i = j}

\* sort_cmp with equal titles ordered by saved_at ascending.
sort_cmp_saved_at_ascending(a, b) ==
    IF cmp_title(a.title, b.title) # 0 THEN cmp_title(a.title, b.title)
    ELSE cmp_int(a.saved_at, b.saved_at)

\* The comparator of MetadataCache::sort: title, then saved_at descending.
sort_cmp(a, b) ==
    IF cmp_title(a.title, b.title) # 0 THEN cmp_title(a.title, b.title)
    ELSE cmp_int(b.saved_at, a.saved_at)

\* sort_unstable_by: every ordering of the elements that the comparator
\* accepts (elements that compare equal may end in either order).
sort(metadata) ==
    LET n == Len(metadata)
        perms == {[i \in 1..n |-> metadata[f[i]]] : f \in Bijections(n)}
    IN {p \in perms : \A i, j \in 1..n : i < j => sort_cmp(p[i], p[j]) <= 0}

EmptyCache == [metadata |-> <<>>, metadata_by_id |-> [id \in PromptIds |-> None]]

\* Index of the first element of the sequence with this id, 0 if none.
position(metadata, id) ==
    IF \E i \in 1..Len(metadata) : metadata[i].id = id
    THEN CHOOSE i \in 1..Len(metadata) :
            /\ metadata[i].id = id
            /\ \A j \in 1..(i - 1) : metadata[j].id # id
    ELSE 0

\* insert that pushes the record without looking for one to replace.
insert_always_pushes(cache, m) ==
    {[metadata |-> sorted,
      metadata_by_id |-> [cache.metadata_by_id EXCEPT ![m.id] = Some(m)]]
     : sorted \in sort(Append(cache.metadata, m))}

\* MetadataCache::insert; the set of caches it can produce.
insert(cache, m) ==
    LET ix == position(cache.metadata, m.id)
        replaced == IF ix # 0 THEN [cache.metadata EXCEPT ![ix] = m]
                    ELSE Append(cache.metadata, m)
    IN {[metadata |-> sorted,
         metadata_by_id |-> [cache.metadata_by_id EXCEPT ![m.id] = Some(m)]]
        : sorted \in sort(replaced)}

\* MetadataCache::remove.
remove(cache, id) ==
    [metadata |-> SelectSeq(cache.metadata, LAMBDA m : m.id # id),
     metadata_by_id |-> [cache.metadata_by_id EXCEPT ![id] = None]]

\* Keys of the v2 tables in the order LMDB iterates them (byte order of the
\* JSON-encoded key: {"kind":"EditWorkflow"} before {"kind":"User",...}).
IdOrder == <<EditWorkflow, User("u1"), User("u2"), User("u3")>>

RECURSIVE db_rows(_, _)
db_rows(db, ids) ==
    IF ids = <<>> THEN <<>>
    ELSE IF IsSome(db[Head(ids)])
         THEN <<Unwrap(db[Head(ids)])>> \o db_rows(db, Tail(ids))
         ELSE db_rows(db, Tail(ids))

\* MetadataCache::from_db; the set of caches it can produce.
from_db(db) ==
    {[metadata |-> sorted, metadata_by_id |-> db] : sorted \in sort(db_rows(db, IdOrder))}

\* PromptStore::metadata.
metadata(id) == metadata_cache.metadata_by_id[id]

\* PromptStore::first.
first == IF metadata_cache.metadata = <<>> THEN None
         ELSE Some(Head(metadata_cache.metadata))

----------------------------------------------------------------------------
(* The tables on disk *)

EmptyTable == [id \in PromptIds |-> None]
AbsentV1 == [exists |-> FALSE, rows |-> [u \in Uuids |-> None]]
TableV1(rows) == [exists |-> TRUE, rows |-> rows]

\* PromptMetadataV1 without its id, which upgrade_dbs does not read.
PromptMetadataV1(title, default, saved_at) ==
    [title |-> title, default |-> default, saved_at |-> saved_at]

----------------------------------------------------------------------------
(* PromptStore::upgrade_dbs *)

\* The orders in which a HashMap with these keys can be iterated.
Orders(keys) ==
    {o \in [1..Cardinality(keys) -> keys] :
        \A i, j \in 1..Cardinality(keys) : o[i] = o[j] => i = j}

\* The `for (prompt_id_v1, metadata_v1) in metadata_v1` loop, over the keys in
\* the given order; the result is the content of the v2 tables in the write
\* transaction.
RECURSIVE upgrade_loop_break(_, _, _, _, _)
upgrade_loop_break(order, mdb, bdb, mv1, bv1) ==
    IF order = <<>> THEN [metadata |-> mdb, bodies |-> bdb]
    ELSE LET prompt_id_v1 == Head(order)
             metadata_v1 == Unwrap(mv1[prompt_id_v1])
             prompt_id_v2 == User(prompt_id_v1)
             body_v1 == bv1[prompt_id_v1]
         IN IF ~IsSome(body_v1)
            THEN [metadata |-> mdb, bodies |-> bdb]
            ELSE IF \/ ~IsSome(mdb[prompt_id_v2])
                    \/ metadata_v1.saved_at > Unwrap(mdb[prompt_id_v2]).saved_at
                 THEN upgrade_loop_break(
                        Tail(order),
                        [mdb EXCEPT ![prompt_id_v2] =
                            Some(PromptMetadata(prompt_id_v2, metadata_v1.title,
                                                metadata_v1.default, metadata_v1.saved_at))],
                        [bdb EXCEPT ![prompt_id_v2] = body_v1],
                        mv1, bv1)
                 ELSE upgrade_loop_break(Tail(order), mdb, bdb, mv1, bv1)

\* The loop with `>=` for `>` in the comparison of the two saved_at.
RECURSIVE upgrade_loop_newer_or_equal(_, _, _, _, _)
upgrade_loop_newer_or_equal(order, mdb, bdb, mv1, bv1) ==
    IF order = <<>> THEN [metadata |-> mdb, bodies |-> bdb]
    ELSE LET prompt_id_v1 == Head(order)
             metadata_v1 == Unwrap(mv1[prompt_id_v1])
             prompt_id_v2 == User(prompt_id_v1)
             body_v1 == bv1[prompt_id_v1]
         IN IF ~IsSome(body_v1)
            THEN upgrade_loop_newer_or_equal(Tail(order), mdb, bdb, mv1, bv1)
            ELSE IF \/ ~IsSome(mdb[prompt_id_v2])
                    \/ metadata_v1.saved_at >= Unwrap(mdb[prompt_id_v2]).saved_at
                 THEN upgrade_loop_newer_or_equal(
                        Tail(order),
                        [mdb EXCEPT ![prompt_id_v2] =
                            Some(PromptMetadata(prompt_id_v2, metadata_v1.title,
                                                metadata_v1.default, metadata_v1.saved_at))],
                        [bdb EXCEPT ![prompt_id_v2] = body_v1],
                        mv1, bv1)
                 ELSE upgrade_loop_newer_or_equal(Tail(order), mdb, bdb, mv1, bv1)

RECURSIVE upgrade_loop(_, _, _, _, _)
upgrade_loop(order, mdb, bdb, mv1, bv1) ==
    IF order = <<>> THEN [metadata |-> mdb, bodies |-> bdb]
    ELSE LET prompt_id_v1 == Head(order)
             metadata_v1 == Unwrap(mv1[prompt_id_v1])
             prompt_id_v2 == User(prompt_id_v1)
             body_v1 == bv1[prompt_id_v1]
         IN IF ~IsSome(body_v1)
            THEN upgrade_loop(Tail(order), mdb, bdb, mv1, bv1)
            ELSE IF \/ ~IsSome(mdb[prompt_id_v2])
                    \/ metadata_v1.saved_at > Unwrap(mdb[prompt_id_v2]).saved_at
                 THEN upgrade_loop(
                        Tail(order),
                        [mdb EXCEPT ![prompt_id_v2] =
                            Some(PromptMetadata(prompt_id_v2, metadata_v1.title,
                                                metadata_v1.default, metadata_v1.saved_at))],
                        [bdb EXCEPT ![prompt_id_v2] = body_v1],
                        mv1, bv1)
                 ELSE upgrade_loop(Tail(order), mdb, bdb, mv1, bv1)

\* The keys of the legacy metadata table.
KeysV1(mv1) == {u \in Uuids : IsSome(mv1.rows[u])}

\* upgrade_dbs that returns without its txn.commit(): the writes are dropped.
upgrade_dbs_no_commit(order, mdb, bdb, mv1, bv1) == [metadata |-> mdb, bodies |-> bdb]

\* upgrade_dbs when every database operation succeeds: the content of the v2
\* tables after it.  Either legacy table missing: return before any write.
upgrade_dbs(order, mdb, bdb, mv1, bv1) ==
    IF ~bv1.exists THEN [metadata |-> mdb, bodies |-> bdb]
    ELSE IF ~mv1.exists THEN [metadata |-> mdb, bodies |-> bdb]
    ELSE upgrade_loop(order, mdb, bdb, mv1.rows, bv1.rows)

\* upgrade_dbs that fails after the puts of the first legacy record, which
\* stay in the tables.
upgrade_dbs_err_keeps_puts(order, mdb, bdb, mv1, bv1) ==
    upgrade_dbs(IF order = <<>> THEN <<>> ELSE <<Head(order)>>, mdb, bdb, mv1, bv1)

\* upgrade_dbs when one of its database operations returns an error: `?`
\* leaves the function, the write transaction is dropped and with it every
\* put made so far.
upgrade_dbs_err(order, mdb, bdb, mv1, bv1) == [metadata |-> mdb, bodies |-> bdb]

\* new without the two deletes of the EditWorkflow rows.
purge_skipped(db) == db

\* The deletes of the EditWorkflow rows in PromptStore::new.
purge(db) == [db EXCEPT ![EditWorkflow] = None]

----------------------------------------------------------------------------
(* PromptStore: calls.  Each call runs on the foreground thread up to its   *)
(* executor.spawn; the spawned closure is a task that runs later.           *)

\* A closure handed to the background executor.  `at` is the instant of the
\* call; `edit` is the number of the edit it carries when the save loop made
\* the call, and 0 otherwise.
Task(kind, id, meta, body, at, edit) ==
    [kind |-> kind, id |-> id, metadata |-> meta, body |-> body,
     at |-> at, edit |-> edit]

\* load without the LineEnding::normalize call.
load_raw(id) ==
    IF ~IsSome(bodies_db[id]) THEN [res |-> "Err(prompt not found)", prompt |-> <<>>]
    ELSE [res |-> "Ok", prompt |-> Unwrap(bodies_db[id])]

\* PromptStore::load: the closure's read transaction, on the tables as they are.
load(id) ==
    IF ~IsSome(bodies_db[id]) THEN [res |-> "Err(prompt not found)", prompt |-> <<>>]
    ELSE [res |-> "Ok", prompt |-> normalize(Unwrap(bodies_db[id]))]

\* save without the is_built_in check.
save_unchecked(id, title, default, body, edit) ==
    LET now == clock + 1
        prompt_metadata == PromptMetadata(id, title, default, now)
    IN /\ \E cache \in insert(metadata_cache, prompt_metadata) :
             metadata_cache' = cache
       /\ tasks' = tasks \cup
             {Task("save", id, Some(prompt_metadata), Some(body), now, edit)}
       /\ clock' = now
       /\ latest' = [latest EXCEPT ![id] = now]

\* PromptStore::save up to the spawn.
save(id, title, default, body, edit) ==
    IF is_built_in(id)
    THEN UNCHANGED <<metadata_cache, tasks, clock, latest>>
    ELSE LET now == clock + 1
             prompt_metadata == PromptMetadata(id, title, default, now)
         IN /\ \E cache \in insert(metadata_cache, prompt_metadata) :
                  metadata_cache' = cache
            /\ tasks' = tasks \cup
                  {Task("save", id, Some(prompt_metadata), Some(body), now, edit)}
            /\ clock' = now
            /\ latest' = [latest EXCEPT ![id] = now]

\* What PromptStore::save returns: a failed ready task, or the spawned task.
save_returns(id) ==
    IF is_built_in(id) THEN "Err(built-in prompts cannot be saved)" ELSE "Task"

\* save_metadata without the is_built_in branch: the title passed is stored.
save_metadata_any_title(id, title, default) ==
    LET now == clock + 1
        prompt_metadata == PromptMetadata(id, title, default, now)
    IN /\ \E cache \in insert(metadata_cache, prompt_metadata) :
             metadata_cache' = cache
       /\ tasks' = tasks \cup
             {Task("save_metadata", id, Some(prompt_metadata), None, now, 0)}
       /\ clock' = now
       /\ latest' = [latest EXCEPT ![id] = now]

\* PromptStore::save_metadata up to the spawn.
save_metadata(id, title, default) ==
    LET now == clock + 1
        title_used == IF is_built_in(id)
                      THEN (IF IsSome(metadata_cache.metadata_by_id[id])
                            THEN Unwrap(metadata_cache.metadata_by_id[id]).title
                            ELSE None)
                      ELSE title
        prompt_metadata == PromptMetadata(id, title_used, default, now)
    IN /\ \E cache \in insert(metadata_cache, prompt_metadata) :
             metadata_cache' = cache
       /\ tasks' = tasks \cup
             {Task("save_metadata", id, Some(prompt_metadata), None, now, 0)}
       /\ clock' = now
       /\ latest' = [latest EXCEPT ![id] = now]

\* PromptStore::delete up to the spawn.
delete(id) ==
    LET now == clock + 1
    IN /\ metadata_cache' = remove(metadata_cache, id)
       /\ tasks' = tasks \cup {Task("delete", id, None, None, now, 0)}
       /\ clock' = now
       /\ latest' = [latest EXCEPT ![id] = now]

\* commit whose save puts the metadata and the body in two transactions, the
\* first of which has committed.
commit_save_metadata_first(t) ==
    CASE t.kind = "save" ->
            /\ metadata_db' = [metadata_db EXCEPT ![t.id] = t.metadata]
            /\ bodies_db' = bodies_db
      [] t.kind = "save_metadata" ->
            /\ metadata_db' = [metadata_db EXCEPT ![t.id] = t.metadata]
            /\ bodies_db' = bodies_db
      [] t.kind = "delete" ->
            /\ metadata_db' = [metadata_db EXCEPT ![t.id] = None]
            /\ bodies_db' = [bodies_db EXCEPT ![t.id] = None]

\* commit whose delete transaction leaves the body in place.
commit_delete_leaves_body(t) ==
    CASE t.kind = "save" ->
            /\ metadata_db' = [metadata_db EXCEPT ![t.id] = t.metadata]
            /\ bodies_db' = [bodies_db EXCEPT ![t.id] = t.body]
      [] t.kind = "save_metadata" ->
            /\ metadata_db' = [metadata_db EXCEPT ![t.id] = t.metadata]
            /\ bodies_db' = bodies_db
      [] t.kind = "delete" ->
            /\ metadata_db' = [metadata_db EXCEPT ![t.id] = None]
            /\ bodies_db' = bodies_db

\* commit whose save_metadata transaction also puts an empty body.
commit_save_metadata_puts_body(t) ==
    CASE t.kind = "save" ->
            /\ metadata_db' = [metadata_db EXCEPT ![t.id] = t.metadata]
            /\ bodies_db' = [bodies_db EXCEPT ![t.id] = t.body]
      [] t.kind = "save_metadata" ->
            /\ metadata_db' = [metadata_db EXCEPT ![t.id] = t.metadata]
            /\ bodies_db' = [bodies_db EXCEPT ![t.id] = Some(<<>>)]
      [] t.kind = "delete" ->
            /\ metadata_db' = [metadata_db EXCEPT ![t.id] = None]
            /\ bodies_db' = [bodies_db EXCEPT ![t.id] = None]

\* The write transaction of a spawned closure, committed.
commit(t) ==
    CASE t.kind = "save" ->
            /\ metadata_db' = [metadata_db EXCEPT ![t.id] = t.metadata]
            /\ bodies_db' = [bodies_db EXCEPT ![t.id] = t.body]
      [] t.kind = "save_metadata" ->
            /\ metadata_db' = [metadata_db EXCEPT ![t.id] = t.metadata]
            /\ bodies_db' = bodies_db
      [] t.kind = "delete" ->
            /\ metadata_db' = [metadata_db EXCEPT ![t.id] = None]
            /\ bodies_db' = [bodies_db EXCEPT ![t.id] = None]

----------------------------------------------------------------------------
(* The record of the last step *)

NoArgs == [title |-> None, default |-> FALSE, body |-> <<>>]
NoTask == Task("none", EditWorkflow, None, None, 0, 0)

Step(op, id, args, res, t) ==
    [op |-> op, id |-> id, title |-> args.title, default |-> args.default,
     body |-> args.body, res |-> res, task |-> t]

----------------------------------------------------------------------------
(* Actions on the store *)

\* new that builds the cache from the metadata table before the migration.
New_cache_before_upgrade ==
    /\ ~opened
    /\ \E order \in Orders(KeysV1(metadata_v1_db)), upgraded \in BOOLEAN :
          LET metadata_purged == purge(metadata_db)
              bodies_purged == purge(bodies_db)
              up == IF upgraded
                    THEN upgrade_dbs(order, metadata_purged, bodies_purged,
                                     metadata_v1_db, bodies_v1_db)
                    ELSE upgrade_dbs_err(order, metadata_purged, bodies_purged,
                                         metadata_v1_db, bodies_v1_db)
          IN /\ metadata_db' = up.metadata
             /\ bodies_db' = up.bodies
             /\ \E cache \in from_db(metadata_purged) : metadata_cache' = cache
             /\ last' = Step("new", EditWorkflow, NoArgs,
                             IF upgraded THEN "Ok" ELSE "Ok(upgrade failed)", NoTask)
    /\ opened' = TRUE
    /\ before_run' = [metadata |-> metadata_db, bodies |-> bodies_db]
    /\ UNCHANGED <<metadata_v1_db, bodies_v1_db, tasks, clock, latest>>
    /\ UNCHANGED <<libraryVars, runs, after_first, uiVars>>
    /\ UNCHANGED globalVars

\* PromptStore::new, from the purge of EditWorkflow to the cache built from the
\* metadata table.  upgrade_dbs either runs to its commit or fails before it
\* (its error is logged and dropped).
New ==
    /\ ~opened
    /\ \E order \in Orders(KeysV1(metadata_v1_db)), upgraded \in BOOLEAN :
          LET metadata_purged == purge(metadata_db)
              bodies_purged == purge(bodies_db)
              up == IF upgraded
                    THEN upgrade_dbs(order, metadata_purged, bodies_purged,
                                     metadata_v1_db, bodies_v1_db)
                    ELSE upgrade_dbs_err(order, metadata_purged, bodies_purged,
                                         metadata_v1_db, bodies_v1_db)
          IN /\ metadata_db' = up.metadata
             /\ bodies_db' = up.bodies
             /\ \E cache \in from_db(up.metadata) : metadata_cache' = cache
             /\ last' = Step("new", EditWorkflow, NoArgs,
                             IF upgraded THEN "Ok" ELSE "Ok(upgrade failed)", NoTask)
    /\ opened' = TRUE
    /\ before_run' = [metadata |-> metadata_db, bodies |-> bodies_db]
    /\ UNCHANGED <<metadata_v1_db, bodies_v1_db, tasks, clock, latest>>
    /\ UNCHANGED <<libraryVars, runs, after_first, uiVars>>
    /\ UNCHANGED globalVars

CanSpawn == Cardinality(tasks) < MaxTasks

Save ==
    /\ opened /\ CanSpawn /\ clock < MaxSavedAt + MaxCalls
    /\ \E id \in StoreIds, title \in StoreTitles, default \in BOOLEAN, body \in Bodies :
          /\ save(id, title, default, body, 0)
          /\ last' = Step("save", id,
                          [title |-> title, default |-> default, body |-> body],
                          save_returns(id), NoTask)
    /\ UNCHANGED <<opened, metadata_db, bodies_db, metadata_v1_db, bodies_v1_db>>
    /\ UNCHANGED <<libraryVars, upgradeVars, uiVars>>
    /\ UNCHANGED globalVars

SaveMetadata ==
    /\ opened /\ CanSpawn /\ clock < MaxSavedAt + MaxCalls
    /\ \E id \in StoreIds, title \in StoreTitles, default \in BOOLEAN :
          /\ save_metadata(id, title, default)
          /\ last' = Step("save_metadata", id,
                          [title |-> title, default |-> default, body |-> <<>>],
                          "Task", NoTask)
    /\ UNCHANGED <<opened, metadata_db, bodies_db, metadata_v1_db, bodies_v1_db>>
    /\ UNCHANGED <<libraryVars, upgradeVars, uiVars>>
    /\ UNCHANGED globalVars

Delete ==
    /\ opened /\ CanSpawn /\ clock < MaxSavedAt + MaxCalls
    /\ \E id \in StoreIds :
          /\ delete(id)
          /\ last' = Step("delete", id, NoArgs, "Task", NoTask)
    /\ UNCHANGED <<opened, metadata_db, bodies_db, metadata_v1_db, bodies_v1_db>>
    /\ UNCHANGED <<libraryVars, upgradeVars, uiVars>>
    /\ UNCHANGED globalVars

\* A spawned closure runs and its transaction commits.
TaskCommits ==
    /\ \E t \in tasks :
          /\ commit(t)
          /\ tasks' = tasks \ {t}
          /\ last' = Step("task", t.id, NoArgs, "Ok", t)
          /\ commits' = IF t.edit # 0
                        THEN [commits EXCEPT ![t.id] = Append(@, t.edit)]
                        ELSE commits
          /\ creating' = {IF c.at = t.at THEN [c EXCEPT !.res = "Ok"] ELSE c : c \in creating}
    /\ UNCHANGED <<opened, metadata_v1_db, bodies_v1_db, metadata_cache, clock, latest>>
    /\ UNCHANGED <<prompt_editors, pending_load, loops, submitted, writes, failed, upgradeVars>>
    /\ UNCHANGED <<pending_search, found>>
    /\ UNCHANGED globalVars

\* The failed closure takes the record of its prompt out of the cache again.
cache_after_err_reverted(t) == remove(metadata_cache, t.id)

\* The cache once the closure of task t has returned an error: the closure
\* holds the tables only, and no caller touches the cache on the error.
cache_after_err(t) == metadata_cache

\* A spawned closure runs and fails (write_txn, put, delete or commit returns
\* an error): the transaction is dropped and the tables stay as they were.
TaskFails ==
    /\ \E t \in tasks :
          /\ tasks' = tasks \ {t}
          /\ metadata_cache' = cache_after_err(t)
          /\ last' = Step("task", t.id, NoArgs, "Err", t)
          /\ failed' = [failed EXCEPT ![t.id] = TRUE]
          /\ creating' = {IF c.at = t.at THEN [c EXCEPT !.res = "Err"] ELSE c : c \in creating}
    /\ UNCHANGED <<opened, metadata_db, bodies_db, metadata_v1_db, bodies_v1_db,
                   clock, latest>>
    /\ UNCHANGED <<prompt_editors, pending_load, loops, submitted, writes, commits, upgradeVars>>
    /\ UNCHANGED <<pending_search, found>>
    /\ UNCHANGED globalVars

----------------------------------------------------------------------------
(* Specification of the store: any calls, tasks run in any order *)

RowV2(id, title, default, saved_at, body) ==
    [metadata |-> Some(PromptMetadata(id, title, default, saved_at)), body |-> Some(body)]

\* Disk images the store is opened on: nothing; or a prompt saved by an
\* earlier run together with a newer legacy copy of it.
StoreDisks ==
    {[metadata |-> EmptyTable, bodies |-> EmptyTable,
      metadata_v1 |-> AbsentV1, bodies_v1 |-> AbsentV1],
     [metadata |-> [EmptyTable EXCEPT ![User("u1")] =
                        Some(PromptMetadata(User("u1"), Some(<<"A">>), FALSE, 1))],
      bodies |-> [EmptyTable EXCEPT ![User("u1")] = Some(<<"x">>)],
      metadata_v1 |-> TableV1([u \in Uuids |->
                        IF u = "u1" THEN Some(PromptMetadataV1(Some(<<"B">>), TRUE, MaxSavedAt))
                        ELSE None]),
      bodies_v1 |-> TableV1([u \in Uuids |->
                        IF u = "u1" THEN Some(<<"y", "\r", "\n">>) ELSE None])]}

InitLibraryVars ==
    /\ prompt_editors = [id \in PromptIds |-> None]
    /\ pending_load = None
    /\ loops = {}
    /\ submitted = [id \in PromptIds |-> <<>>]
    /\ writes = [id \in PromptIds |-> <<>>]
    /\ commits = [id \in PromptIds |-> <<>>]
    /\ failed = [id \in PromptIds |-> FALSE]

InitUpgradeVars ==
    /\ runs = 0
    /\ after_first = [metadata |-> EmptyTable, bodies |-> EmptyTable]
    /\ before_run = [metadata |-> EmptyTable, bodies |-> EmptyTable]

NoSearch == [query |-> <<>>, cached_metadata |-> <<>>, matches |-> <<>>, result |-> <<>>]

InitUiVars ==
    /\ creating = {}
    /\ pending_search = None
    /\ found = NoSearch

Callers == 1..MaxCallers

\* A caller that has not requested the store.
NoHandle == [future |-> 0, res |-> "none", early |-> FALSE]

InitGlobalVars ==
    /\ global_store = None
    /\ spawned = 0
    /\ new_err = FALSE
    /\ handles = [caller \in Callers |-> NoHandle]

InitClosed(disks) ==
    /\ opened = FALSE
    /\ \E disk \in disks :
          /\ metadata_db = disk.metadata
          /\ bodies_db = disk.bodies
          /\ metadata_v1_db = disk.metadata_v1
          /\ bodies_v1_db = disk.bodies_v1
    /\ metadata_cache = EmptyCache
    /\ tasks = {}
    /\ clock = MaxSavedAt
    /\ last = Step("none", EditWorkflow, NoArgs, "Ok", NoTask)
    /\ latest = [id \in PromptIds |-> 0]

Init == InitClosed(StoreDisks) /\ InitLibraryVars /\ InitUpgradeVars /\ InitUiVars /\ InitGlobalVars

Next == New \/ Save \/ SaveMetadata \/ Delete \/ TaskCommits \/ TaskFails

Spec == Init /\ [][Next]_vars

----------------------------------------------------------------------------
(* Claims about the store *)

SaveCommitted ==
    last.op = "task" /\ last.res = "Ok" /\ last.task.kind = "save"

DeleteCommitted ==
    last.op = "task" /\ last.res = "Ok" /\ last.task.kind = "delete"

\* The task of `last` comes from the most recent mutating call for its id.
LastIsLatest == latest[last.id] = last.task.at

\* C1: when the write transaction of save(id, title, default, body) has just
\* committed, load(id) returns the body with its line endings normalized, and
\* the cache holds the metadata record that save built for id (provided no later
\* save, save_metadata or delete for id has been called in the meantime).
C1_PutThenGet ==
    SaveCommitted =>
        /\ load(last.id) =
              [res |-> "Ok", prompt |-> normalize(Unwrap(last.task.body))]
        /\ LastIsLatest => metadata(last.id) = last.task.metadata

\* C1 witness: a save of a body with a "\r\n" in it has just committed.
C1_Witness ==
    /\ SaveCommitted /\ LastIsLatest
    /\ Unwrap(last.task.body) # normalize(Unwrap(last.task.body))
    /\ load(last.id).prompt = <<"y", "\n">>

\* C6: save with a built-in id returns an error and changes neither the cache
\* nor the two tables, and spawns no task that could change them later.
C6_SaveBuiltInRejected ==
    /\ [][(last'.op = "save" /\ is_built_in(last'.id)) =>
            /\ last'.res = "Err(built-in prompts cannot be saved)"
            /\ UNCHANGED <<metadata_cache, metadata_db, bodies_db, tasks>>]_vars
    /\ [](\A t \in tasks : t.kind = "save" => ~is_built_in(t.id))

\* C6 witness: save was just called for a built-in id that has a record in the
\* cache and in the metadata table.
C6_Witness ==
    /\ last.op = "save" /\ is_built_in(last.id)
    /\ last.title # None
    /\ IsSome(metadata(last.id)) /\ IsSome(metadata_db[last.id])

\* C7: delete with a built-in id that has a record in the cache fails and
\* removes nothing: the call leaves the cache as it is and spawns no task, and
\* no transaction of a delete changes the tables for a built-in id.
C7_DeleteBuiltInRejected ==
    [][/\ (/\ last'.op = "delete" /\ is_built_in(last'.id)
           /\ IsSome(metadata_cache.metadata_by_id[last'.id])) =>
            /\ last'.res # "Task"
            /\ UNCHANGED <<metadata_cache, metadata_db, bodies_db, tasks>>
       /\ (last'.op = "task" /\ last'.task.kind = "delete" /\ is_built_in(last'.id)) =>
            UNCHANGED <<metadata_db, bodies_db>>]_vars

\* C8: save_metadata with a built-in id stores the title the cache held for id
\* before the call (none if it held no record), whatever title is passed, and
\* the default flag passed; the title of a built-in record in the metadata
\* table never changes either.
C8_SaveMetadataBuiltInKeepsTitle ==
    [][/\ (last'.op = "save_metadata" /\ is_built_in(last'.id)) =>
            LET old == metadata_cache.metadata_by_id[last'.id]
                new == metadata_cache'.metadata_by_id[last'.id]
            IN /\ IsSome(new)
               /\ Unwrap(new).title = IF IsSome(old) THEN Unwrap(old).title ELSE None
               /\ Unwrap(new).default = last'.default
       /\ \A id \in PromptIds :
            (is_built_in(id) /\ IsSome(metadata_db'[id])) =>
                Unwrap(metadata_db'[id]).title =
                    IF IsSome(metadata_db[id]) THEN Unwrap(metadata_db[id]).title
                    ELSE None]_vars

\* C8 witness: save_metadata was just called with a title for a built-in id
\* whose record, stored by an earlier call, has no title and the other flag.
C8_Witness ==
    /\ last.op = "save_metadata" /\ is_built_in(last.id)
    /\ last.title = Some(<<"A">>)
    /\ IsSome(metadata_db[last.id])
    /\ Unwrap(metadata_db[last.id]).default # last.default
    /\ Unwrap(metadata(last.id)).title = None
    /\ Unwrap(metadata(last.id)).default = last.default

\* C9: when the transaction of delete(id) has just committed for a user id,
\* neither table holds id and load(id) fails with "prompt not found"; the cache
\* holds no record for id (provided no later save or save_metadata for id has
\* been called in the meantime).
C9_DeleteThenGone ==
    (DeleteCommitted /\ ~is_built_in(last.id)) =>
        /\ metadata_db[last.id] = None
        /\ bodies_db[last.id] = None
        /\ load(last.id).res = "Err(prompt not found)"
        /\ LastIsLatest =>
              /\ metadata(last.id) = None
              /\ \A i \in 1..Len(metadata_cache.metadata) :
                    metadata_cache.metadata[i].id # last.id

\* C9 witness: the first call on a store opened with a prompt on disk was a
\* delete of that prompt, and its transaction has just committed.
C9_Witness ==
    /\ DeleteCommitted /\ last.id = User("u1") /\ LastIsLatest
    /\ metadata_v1_db.exists
    /\ last.task.at = MaxSavedAt + 1
    /\ tasks = {}

\* C19: the transaction of save(id, ..) changes the two tables in one step:
\* when it commits, the metadata table holds the metadata of the call for id
\* and the bodies table its body from the same step on, and no other row
\* changes; when it fails, neither table changes.
C19_SaveAtomic ==
    [][(last'.op = "task" /\ last'.task.kind = "save") =>
        IF last'.res = "Ok"
        THEN /\ metadata_db' = [metadata_db EXCEPT ![last'.id] = last'.task.metadata]
             /\ bodies_db' = [bodies_db EXCEPT ![last'.id] = last'.task.body]
        ELSE UNCHANGED <<metadata_db, bodies_db>>]_vars

\* C19 witness: the transaction of a save has just committed over a prompt
\* that the tables already held with another title and body, while another
\* task is still waiting to run.
C19_Witness ==
    /\ SaveCommitted /\ last.id = User("u1")
    /\ metadata_v1_db.exists
    /\ tasks # {}
    /\ metadata_db[last.id] = last.task.metadata
    /\ bodies_db[last.id] = last.task.body
    /\ last.task.body = Some(<<"x">>)
    /\ Unwrap(last.task.metadata).title = None

\* C20: whenever no task is waiting to run (no write transaction is pending),
\* a user identifier has a row in the metadata table if and only if it has one
\* in the bodies table.
C20_MetadataIffBody ==
    tasks = {} =>
        \A id \in UserIds : IsSome(metadata_db[id]) <=> IsSome(bodies_db[id])

----------------------------------------------------------------------------
(* Specification of the migration: upgrade_dbs run repeatedly over any      *)
(* content of the legacy and the v2 tables                                  *)

\* What a disk image can hold for one uuid: in the legacy tables a metadata
\* record and a body, each present or not; in the v2 tables nothing or a
\* prompt (metadata and body, written together by save).
LegacyMetadataRows ==
    {None} \cup {Some(PromptMetadataV1(Some(<<"A">>), TRUE, t)) : t \in 1..MaxSavedAt}
LegacyBodyRows == {None, Some(<<"x">>)}
CurrentRows ==
    {[metadata |-> None, body |-> None]} \cup
    {[metadata |-> Some([title |-> Some(<<"B">>), default |-> FALSE, saved_at |-> t]),
      body |-> Some(<<"y", "\r", "\n">>)] : t \in 1..MaxSavedAt}

UpgradeDisk(lm, lb, cur, has_metadata_v1, has_bodies_v1) ==
    [metadata |-> [id \in PromptIds |->
                    IF is_built_in(id) \/ id[2] \notin DiskUuids THEN None
                    ELSE IF ~IsSome(cur[id[2]].metadata) THEN None
                    ELSE LET m == Unwrap(cur[id[2]].metadata)
                         IN Some(PromptMetadata(id, m.title, m.default, m.saved_at))],
     bodies |-> [id \in PromptIds |->
                    IF is_built_in(id) \/ id[2] \notin DiskUuids THEN None
                    ELSE cur[id[2]].body],
     metadata_v1 |-> IF has_metadata_v1
                     THEN TableV1([u \in Uuids |-> IF u \in DiskUuids THEN lm[u] ELSE None])
                     ELSE AbsentV1,
     bodies_v1 |-> IF has_bodies_v1
                   THEN TableV1([u \in Uuids |-> IF u \in DiskUuids THEN lb[u] ELSE None])
                   ELSE AbsentV1]

UpgradeDisks ==
    {UpgradeDisk(lm, lb, cur, has_metadata_v1, has_bodies_v1) :
        lm \in [DiskUuids -> LegacyMetadataRows], lb \in [DiskUuids -> LegacyBodyRows],
        cur \in [DiskUuids -> CurrentRows],
        has_metadata_v1 \in BOOLEAN, has_bodies_v1 \in BOOLEAN}

\* upgrade_dbs runs to its commit.
Upgrade ==
    /\ runs < MaxRuns
    /\ \E order \in Orders(KeysV1(metadata_v1_db)) :
          LET up == upgrade_dbs(order, metadata_db, bodies_db,
                                metadata_v1_db, bodies_v1_db)
          IN /\ metadata_db' = up.metadata
             /\ bodies_db' = up.bodies
             /\ after_first' = IF runs = 0 THEN up ELSE after_first
             /\ before_run' = [metadata |-> metadata_db, bodies |-> bodies_db]
    /\ runs' = runs + 1
    /\ last' = Step("upgrade_dbs", EditWorkflow, NoArgs, "Ok", NoTask)
    /\ UNCHANGED <<opened, metadata_v1_db, bodies_v1_db, metadata_cache, tasks,
                   clock, latest, libraryVars, uiVars>>
    /\ UNCHANGED globalVars

\* upgrade_dbs returns an error from one of its database operations: its
\* write transaction is dropped without a commit.
UpgradeFails ==
    /\ runs < MaxRuns
    /\ last' = Step("upgrade_dbs", EditWorkflow, NoArgs, "Err", NoTask)
    /\ UNCHANGED <<opened, metadata_db, bodies_db, metadata_v1_db, bodies_v1_db,
                   metadata_cache, tasks, clock, latest, libraryVars, upgradeVars, uiVars>>
    /\ UNCHANGED globalVars

InitUpgrade ==
    InitClosed(UpgradeDisks) /\ InitLibraryVars /\ InitUpgradeVars /\ InitUiVars /\ InitGlobalVars

NextUpgrade == Upgrade \/ UpgradeFails

SpecUpgrade == InitUpgrade /\ [][NextUpgrade]_vars

\* The prompt of this uuid in the v2 tables is the legacy one.
Migrated(u) ==
    /\ IsSome(metadata_v1_db.rows[u]) /\ IsSome(bodies_v1_db.rows[u])
    /\ LET m1 == Unwrap(metadata_v1_db.rows[u])
       IN metadata_db[User(u)] =
             Some(PromptMetadata(User(u), m1.title, m1.default, m1.saved_at))
    /\ bodies_db[User(u)] = bodies_v1_db.rows[u]

\* C10: a second run of upgrade_dbs leaves the v2 metadata and bodies tables
\* as the first run left them.
C10_UpgradeIdempotent ==
    runs >= 2 => (metadata_db = after_first.metadata /\ bodies_db = after_first.bodies)

\* C10 witness: upgrade_dbs has run twice over a disk where it migrated one
\* legacy prompt, kept a newer v2 prompt over its legacy copy.
C10_Witness ==
    /\ runs = 2
    /\ Migrated("u1")
    /\ IsSome(metadata_v1_db.rows["u2"]) /\ IsSome(bodies_v1_db.rows["u2"])
    /\ IsSome(metadata_db[User("u2")])
    /\ Unwrap(metadata_db[User("u2")]).title = Some(<<"B">>)
    /\ Unwrap(metadata_db[User("u2")]).saved_at > Unwrap(metadata_v1_db.rows["u2"]).saved_at

\* Both legacy tables exist and hold a metadata record and a body for this uuid.
LegacyPrompt(u) ==
    /\ metadata_v1_db.exists /\ bodies_v1_db.exists
    /\ IsSome(metadata_v1_db.rows[u]) /\ IsSome(bodies_v1_db.rows[u])

\* C11: when a run of upgrade_dbs has committed, for every legacy prompt
\* (metadata saved at T1, and body) whose identifier had a v2 metadata record
\* saved at T2 when the run started: if T1 > T2 the v2 metadata and body are
\* now the legacy ones; otherwise (T2 > T1 or T2 = T1) the v2 metadata and body
\* are as the run found them.
C11_RecencyWins ==
    runs >= 1 =>
        \A u \in Uuids :
            (LegacyPrompt(u) /\ IsSome(before_run.metadata[User(u)])) =>
                IF Unwrap(metadata_v1_db.rows[u]).saved_at >
                       Unwrap(before_run.metadata[User(u)]).saved_at
                THEN Migrated(u)
                ELSE /\ metadata_db[User(u)] = before_run.metadata[User(u)]
                     /\ bodies_db[User(u)] = before_run.bodies[User(u)]

\* C11 witness: one run over a disk where the legacy copy of u1 was newer than
\* its v2 record and replaced it, and the legacy copy of u2 was saved at the
\* same instant as its v2 record, which was kept.
C11_Witness ==
    /\ runs = 1
    /\ LegacyPrompt("u1") /\ LegacyPrompt("u2")
    /\ IsSome(before_run.metadata[User("u1")]) /\ IsSome(before_run.metadata[User("u2")])
    /\ Unwrap(metadata_v1_db.rows["u1"]).saved_at >
           Unwrap(before_run.metadata[User("u1")]).saved_at
    /\ Unwrap(metadata_v1_db.rows["u2"]).saved_at =
           Unwrap(before_run.metadata[User("u2")]).saved_at
    /\ Migrated("u1") /\ metadata_db[User("u1")] # before_run.metadata[User("u1")]
    /\ ~Migrated("u2") /\ metadata_db[User("u2")] = before_run.metadata[User("u2")]

----------------------------------------------------------------------------
(* PromptLibrary: the editors and the save loop of save_prompt.  Everything  *)
(* here runs on the foreground thread, one step from an await to the next.   *)

\* SAVE_THROTTLE (500 ms) in ticks of the clock, 250 ms each.
SAVE_THROTTLE == 2

\* The texts typed into the title editor and the body editor.
TitleTexts == {<<"A">>, <<" ">>}
BodyTexts == {<<"x">>, <<"y">>}

PromptEditor(title, body) ==
    [title |-> title, body |-> body,
     next_title_and_body_to_save |-> None, pending_save |-> None]

\* The conversion of an empty title, without the trim.
title_to_save_untrimmed(title) ==
    IF title = <<>> THEN None ELSE Some(title)

\* The title the loop passes to PromptStore::save for the text of the title editor.
title_to_save(title) ==
    IF trim(title) = <<>> THEN None ELSE Some(title)

\* save_prompt that records the edit only when it spawns the loop.
save_prompt_drops_when_busy(id, title, body) ==
    IF is_built_in(id) THEN UNCHANGED <<prompt_editors, loops, submitted>>
    ELSE LET prompt_metadata == Unwrap(metadata(id))
             prompt_editor == Unwrap(prompt_editors[id])
             n == Len(submitted[id]) + 1
             edited == [prompt_editor EXCEPT !.title = title, !.body = body]
         IN /\ submitted' = [submitted EXCEPT
                                ![id] = Append(@, [title |-> title, body |-> body, at |-> clock])]
            /\ IF ~IsSome(prompt_editor.pending_save)
               THEN /\ prompt_editors' = [prompt_editors EXCEPT ![id] =
                          Some([edited EXCEPT
                                  !.next_title_and_body_to_save =
                                      Some([title |-> title, body |-> body, edit |-> n]),
                                  !.pending_save = Some(n)])]
                    /\ loops' = loops \cup
                          {[id |-> id, n |-> n, pc |-> "start",
                            default |-> prompt_metadata.default, edit |-> 0, deadline |-> 0]}
               ELSE /\ prompt_editors' = [prompt_editors EXCEPT ![id] = Some(edited)]
                    /\ loops' = loops

\* save_prompt that spawns a detached loop on every call.
save_prompt_always_spawns(id, title, body) ==
    IF is_built_in(id) THEN UNCHANGED <<prompt_editors, loops, submitted>>
    ELSE LET prompt_metadata == Unwrap(metadata(id))
             prompt_editor == Unwrap(prompt_editors[id])
             n == Len(submitted[id]) + 1
             edited == [prompt_editor EXCEPT
                          !.title = title, !.body = body,
                          !.next_title_and_body_to_save =
                              Some([title |-> title, body |-> body, edit |-> n])]
         IN /\ submitted' = [submitted EXCEPT
                                ![id] = Append(@, [title |-> title, body |-> body, at |-> clock])]
            /\ prompt_editors' = [prompt_editors EXCEPT ![id] =
                  Some([edited EXCEPT !.pending_save = Some(n)])]
            /\ loops' = loops \cup
                  {[id |-> id, n |-> n, pc |-> "start",
                    default |-> prompt_metadata.default, edit |-> 0, deadline |-> 0]}

\* save_prompt without the return for built-in prompts taking effect before
\* the spawn: a loop is spawned for a built-in identifier too.
save_prompt_spawns_for_built_in(id, title, body) ==
    IF is_built_in(id)
    THEN /\ loops' = loops \cup
               {[id |-> id, n |-> 1, pc |-> "start",
                 default |-> FALSE, edit |-> 0, deadline |-> 0]}
         /\ UNCHANGED <<prompt_editors, submitted>>
    ELSE LET prompt_metadata == Unwrap(metadata(id))
             prompt_editor == Unwrap(prompt_editors[id])
             n == Len(submitted[id]) + 1
             edited == [prompt_editor EXCEPT
                          !.title = title, !.body = body,
                          !.next_title_and_body_to_save =
                              Some([title |-> title, body |-> body, edit |-> n])]
         IN /\ submitted' = [submitted EXCEPT
                                ![id] = Append(@, [title |-> title, body |-> body, at |-> clock])]
            /\ IF ~IsSome(prompt_editor.pending_save)
               THEN /\ prompt_editors' = [prompt_editors EXCEPT ![id] =
                          Some([edited EXCEPT !.pending_save = Some(n)])]
                    /\ loops' = loops \cup
                          {[id |-> id, n |-> n, pc |-> "start",
                            default |-> prompt_metadata.default, edit |-> 0, deadline |-> 0]}
               ELSE /\ prompt_editors' = [prompt_editors EXCEPT ![id] = Some(edited)]
                    /\ loops' = loops

\* save_prompt that leaves a value already waiting in the slot in place.
save_prompt_keeps_pending(id, title, body) ==
    IF is_built_in(id) THEN UNCHANGED <<prompt_editors, loops, submitted>>
    ELSE LET prompt_metadata == Unwrap(metadata(id))
             prompt_editor == Unwrap(prompt_editors[id])
             n == Len(submitted[id]) + 1
             edited == [prompt_editor EXCEPT
                          !.title = title, !.body = body,
                          !.next_title_and_body_to_save =
                              IF IsSome(@) THEN @
                              ELSE Some([title |-> title, body |-> body, edit |-> n])]
         IN /\ submitted' = [submitted EXCEPT
                                ![id] = Append(@, [title |-> title, body |-> body, at |-> clock])]
            /\ IF ~IsSome(prompt_editor.pending_save)
               THEN /\ prompt_editors' = [prompt_editors EXCEPT ![id] =
                          Some([edited EXCEPT !.pending_save = Some(n)])]
                    /\ loops' = loops \cup
                          {[id |-> id, n |-> n, pc |-> "start",
                            default |-> prompt_metadata.default, edit |-> 0, deadline |-> 0]}
               ELSE /\ prompt_editors' = [prompt_editors EXCEPT ![id] = Some(edited)]
                    /\ loops' = loops

\* PromptLibrary::save_prompt, called after an edit that left `title` in the
\* title editor and `body` in the body editor.  The edit gets the next number
\* of its prompt.  A loop is spawned only when none is pending; it is polled
\* later.
save_prompt(id, title, body) ==
    IF is_built_in(id) THEN UNCHANGED <<prompt_editors, loops, submitted>>
    ELSE LET prompt_metadata == Unwrap(metadata(id))
             prompt_editor == Unwrap(prompt_editors[id])
             n == Len(submitted[id]) + 1
             edited == [prompt_editor EXCEPT
                          !.title = title, !.body = body,
                          !.next_title_and_body_to_save =
                              Some([title |-> title, body |-> body, edit |-> n])]
         IN /\ submitted' = [submitted EXCEPT
                                ![id] = Append(@, [title |-> title, body |-> body, at |-> clock])]
            /\ IF ~IsSome(prompt_editor.pending_save)
               THEN /\ prompt_editors' = [prompt_editors EXCEPT ![id] =
                          Some([edited EXCEPT !.pending_save = Some(n)])]
                    /\ loops' = loops \cup
                          {[id |-> id, n |-> n, pc |-> "start",
                            default |-> prompt_metadata.default, edit |-> 0, deadline |-> 0]}
               ELSE /\ prompt_editors' = [prompt_editors EXCEPT ![id] = Some(edited)]
                    /\ loops' = loops

\* The loop goes on without awaiting the task of PromptStore::save.
save_not_awaited(l) == TRUE

\* `store.save(..).await` of the loop is ready: the task that carries the
\* loop's edit has run.
save_done(l) == ~\E t \in tasks : t.id = l.id /\ t.edit = l.edit

\* `executor.timer(SAVE_THROTTLE).await` of the loop is ready.
timer_done(l) == clock >= l.deadline

\* The loop is at the top of its `loop`: spawned and not yet polled, or woken
\* by its timer.
AtTake(l) == l.pc = "start" \/ (l.pc = "timer" /\ timer_done(l))

\* The loop leaves by `?` when the write it awaited returned an error.
loop_after_save_returns_on_err(l) ==
    IF \E i \in 1..Len(commits[l.id]) : commits[l.id][i] = l.edit
    THEN (loops \ {l}) \cup {[l EXCEPT !.pc = "timer", !.deadline = clock + SAVE_THROTTLE]}
    ELSE loops \ {l}

\* The loops once `store.save(..).await.log_err()` of loop l has returned:
\* whatever the result, l goes on to the timer.
loop_after_save(l) ==
    (loops \ {l}) \cup {[l EXCEPT !.pc = "timer", !.deadline = clock + SAVE_THROTTLE]}

\* The loop ends without touching pending_save.
pending_save_kept(id) == prompt_editors

\* The editors once the loop of id has left its `loop`: pending_save is
\* cleared if the editor still exists.
pending_save_cleared(id) ==
    IF IsSome(prompt_editors[id])
    THEN [prompt_editors EXCEPT ![id] = Some([Unwrap(@) EXCEPT !.pending_save = None])]
    ELSE prompt_editors

\* The loop finds nothing once a write of its prompt has failed.
Taken_none_after_failure(l) ==
    IF IsSome(prompt_editors[l.id]) /\ ~failed[l.id]
    THEN Unwrap(prompt_editors[l.id]).next_title_and_body_to_save
    ELSE None

\* What `next_title_and_body_to_save.take()` gives the loop.
Taken(l) ==
    IF IsSome(prompt_editors[l.id])
    THEN Unwrap(prompt_editors[l.id]).next_title_and_body_to_save
    ELSE None

----------------------------------------------------------------------------
(* Actions of the library *)

\* PromptLibrary::load_prompt for a prompt without an editor: PromptStore::load
\* is called and pending_load replaced.
LoadPrompt ==
    /\ opened
    /\ \E id \in UserIds :
          /\ ~IsSome(prompt_editors[id])
          /\ IsSome(metadata(id))
          /\ pending_load' = Some([id |-> id, title |-> Unwrap(metadata(id)).title])
          /\ last' = Step("load_prompt", id, NoArgs, "Task", NoTask)
    /\ UNCHANGED <<opened, metadata_db, bodies_db, metadata_v1_db, bodies_v1_db,
                   metadata_cache, tasks, clock, latest>>
    /\ UNCHANGED <<prompt_editors, loops, submitted, writes, commits, failed, upgradeVars, uiVars>>
    /\ UNCHANGED globalVars

\* The task of load_prompt: the read transaction of PromptStore::load, then the
\* editors are built from the title captured at the call and the body loaded.
LoadPromptDone ==
    /\ IsSome(pending_load)
    /\ LET p == Unwrap(pending_load)
           prompt == load(p.id)
       IN /\ prompt_editors' =
                IF prompt.res = "Ok"
                THEN [prompt_editors EXCEPT ![p.id] =
                        Some(PromptEditor(IF IsSome(p.title) THEN Unwrap(p.title) ELSE <<>>,
                                          prompt.prompt))]
                ELSE prompt_editors
          /\ last' = Step("load_prompt_done", p.id, NoArgs, prompt.res, NoTask)
    /\ pending_load' = None
    /\ UNCHANGED <<opened, metadata_db, bodies_db, metadata_v1_db, bodies_v1_db,
                   metadata_cache, tasks, clock, latest>>
    /\ UNCHANGED <<loops, submitted, writes, commits, failed, upgradeVars, uiVars>>
    /\ UNCHANGED globalVars

\* The user edits the title or the body of an open prompt: the editor emits
\* BufferEdited and the handler calls save_prompt.
Edit ==
    /\ \E id \in UserIds, title \in TitleTexts, body \in BodyTexts :
          /\ IsSome(prompt_editors[id]) /\ IsSome(metadata(id))
          /\ Len(submitted[id]) < MaxEdits
          /\ (title = Unwrap(prompt_editors[id]).title) # (body = Unwrap(prompt_editors[id]).body)
          /\ save_prompt(id, title, body)
          /\ last' = Step("save_prompt", id,
                          [title |-> Some(title), default |-> FALSE, body |-> body],
                          "", NoTask)
    /\ UNCHANGED <<opened, metadata_db, bodies_db, metadata_v1_db, bodies_v1_db,
                   metadata_cache, tasks, clock, latest>>
    /\ UNCHANGED <<pending_load, writes, commits, failed, upgradeVars, uiVars>>
    /\ UNCHANGED globalVars

\* Loop l takes the pending title and body and calls PromptStore::save.
loop_saves(l) ==
    /\ AtTake(l)
    /\ IsSome(Taken(l))
    /\ LET title_and_body == Unwrap(Taken(l))
       IN /\ prompt_editors' = [prompt_editors EXCEPT ![l.id] =
                Some([Unwrap(@) EXCEPT !.next_title_and_body_to_save = None])]
          /\ save(l.id, title_to_save(title_and_body.title), l.default,
                  title_and_body.body, title_and_body.edit)
          /\ writes' = [writes EXCEPT ![l.id] = Append(@, title_and_body.edit)]
          /\ loops' = (loops \ {l}) \cup
                {[l EXCEPT !.pc = "save", !.edit = title_and_body.edit]}
          /\ last' = Step("loop_save", l.id, NoArgs, save_returns(l.id), NoTask)

\* A loop takes the pending title and body and calls PromptStore::save, while
\* the clock is below its bound.
LoopSaves ==
    /\ CanSpawn /\ clock < MaxSavedAt + MaxClock
    /\ \E l \in loops : loop_saves(l)
    /\ UNCHANGED <<opened, metadata_db, bodies_db, metadata_v1_db, bodies_v1_db>>
    /\ UNCHANGED <<pending_load, submitted, commits, failed, upgradeVars, uiVars>>
    /\ UNCHANGED globalVars

\* A loop takes the pending title and body and calls PromptStore::save, at
\* any time.
LoopSavesAnyTime ==
    /\ CanSpawn
    /\ \E l \in loops : loop_saves(l)
    /\ UNCHANGED <<opened, metadata_db, bodies_db, metadata_v1_db, bodies_v1_db>>
    /\ UNCHANGED <<pending_load, submitted, commits, failed, upgradeVars, uiVars>>
    /\ UNCHANGED globalVars

\* The task of PromptStore::save has run: its error, if any, is logged, the
\* picker refreshed and the timer started.
LoopSaved ==
    /\ \E l \in loops :
          /\ l.pc = "save"
          /\ save_done(l)
          /\ loops' = loop_after_save(l)
          /\ last' = Step("loop_saved", l.id, NoArgs, "", NoTask)
    /\ UNCHANGED <<opened, metadata_db, bodies_db, metadata_v1_db, bodies_v1_db,
                   metadata_cache, tasks, clock, latest>>
    /\ UNCHANGED <<prompt_editors, pending_load, submitted, writes, commits, failed,
                   upgradeVars, uiVars>>
    /\ UNCHANGED globalVars

\* The loop finds nothing to save: it breaks and clears pending_save.
LoopExits ==
    /\ \E l \in loops :
          /\ AtTake(l)
          /\ ~IsSome(Taken(l))
          /\ loops' = loops \ {l}
          /\ prompt_editors' = pending_save_cleared(l.id)
          /\ last' = Step("loop_exit", l.id, NoArgs, "", NoTask)
    /\ UNCHANGED <<opened, metadata_db, bodies_db, metadata_v1_db, bodies_v1_db,
                   metadata_cache, tasks, clock, latest>>
    /\ UNCHANGED <<pending_load, submitted, writes, commits, failed, upgradeVars, uiVars>>
    /\ UNCHANGED globalVars

\* Time passes.
Tick ==
    /\ clock < MaxSavedAt + MaxClock
    /\ clock' = clock + 1
    /\ UNCHANGED <<opened, metadata_db, bodies_db, metadata_v1_db, bodies_v1_db,
                   metadata_cache, tasks, last, latest, libraryVars, upgradeVars, uiVars>>
    /\ UNCHANGED globalVars

\* Time passes while a loop waits for its timer.
TimerTick ==
    /\ \E l \in loops : l.pc = "timer" /\ ~timer_done(l)
    /\ clock' = clock + 1
    /\ UNCHANGED <<opened, metadata_db, bodies_db, metadata_v1_db, bodies_v1_db,
                   metadata_cache, tasks, last, latest, libraryVars, upgradeVars, uiVars>>
    /\ UNCHANGED globalVars

----------------------------------------------------------------------------
(* Specification of the save loop: one prompt on disk, opened in the        *)
(* library and edited                                                       *)

CoalescerDisks ==
    {[metadata |-> [EmptyTable EXCEPT ![User("u1")] =
                        Some(PromptMetadata(User("u1"), Some(<<"A">>), TRUE, 1))],
      bodies |-> [EmptyTable EXCEPT ![User("u1")] = Some(<<"x">>)],
      metadata_v1 |-> AbsentV1, bodies_v1 |-> AbsentV1]}

InitCoalescer ==
    InitClosed(CoalescerDisks) /\ InitLibraryVars /\ InitUpgradeVars /\ InitUiVars /\ InitGlobalVars

NextCoalescer ==
    \/ New \/ LoadPrompt \/ LoadPromptDone \/ Edit
    \/ LoopSaves \/ LoopSaved \/ LoopExits \/ Tick
    \/ TaskCommits \/ TaskFails

SpecCoalescer == InitCoalescer /\ [][NextCoalescer]_vars

----------------------------------------------------------------------------
(* Claims about the save loop *)

\* The save pipeline of id is idle: its editor is open, no loop is pending
\* and none is running.
Idle(id) ==
    /\ IsSome(prompt_editors[id])
    /\ ~IsSome(Unwrap(prompt_editors[id]).pending_save)
    /\ ~\E l \in loops : l.id = id

\* Edits i..j of id were submitted within less than one throttle interval.
Burst(id, i, j) == submitted[id][j].at - submitted[id][i].at < SAVE_THROTTLE

\* The calls of PromptStore::save made by the loop for edits number i and up.
WritesFrom(id, i) == SelectSeq(writes[id], LAMBDA k : k >= i)

\* The last three edits of id came in one burst and its pipeline is idle again.
BurstDrained(id) ==
    /\ Len(submitted[id]) >= 3
    /\ Burst(id, Len(submitted[id]) - 2, Len(submitted[id]))
    /\ Idle(id)

\* The edits number i and up of id whose transactions committed.
CommitsFrom(id, i) == SelectSeq(commits[id], LAMBDA k : k >= i)

\* C2 as claimed: three edits submitted within less than one throttle interval
\* lead to exactly one durable write, which carries the third (no write having
\* failed).
C2_BurstOneWrite ==
    \A id \in UserIds :
        (BurstDrained(id) /\ ~failed[id]) =>
            CommitsFrom(id, Len(submitted[id]) - 2) = <<Len(submitted[id])>>

\* C2 as amended: three edits submitted within less than one throttle interval
\* are saved by one or two calls of PromptStore::save, never three, and the
\* last of these calls carries the third edit; when no write failed, these
\* calls are the durable writes.
C2_BurstAtMostTwoWrites ==
    \A id \in UserIds :
        BurstDrained(id) =>
            LET w == WritesFrom(id, Len(submitted[id]) - 2)
            IN /\ Len(w) \in {1, 2}
               /\ w[Len(w)] = Len(submitted[id])
               /\ ~failed[id] => CommitsFrom(id, Len(submitted[id]) - 2) = w

\* C2 witness: a burst of three edits was saved by two calls, the first edit
\* on its own and then the third.
C2_Witness ==
    /\ BurstDrained(User("u1")) /\ ~failed[User("u1")]
    /\ writes[User("u1")] = <<1, 3>>
    /\ commits[User("u1")] = <<1, 3>>

\* The title an edit is expected to leave in the store: none when the text of
\* the title editor is blank.
ExpectedTitle(title) ==
    IF \A i \in 1..Len(title) : title[i] \in Whitespace THEN None ELSE Some(title)

\* C3: when edits were submitted for id, none of its writes failed and its
\* loop has exited, then the metadata table and the cache hold the title of
\* the last edit (none for a blank title) and the bodies table holds its body.
C3_LastEditPersisted ==
    \A id \in UserIds :
        (Idle(id) /\ submitted[id] # <<>> /\ ~failed[id]) =>
            LET e == submitted[id][Len(submitted[id])]
            IN /\ IsSome(metadata_db[id])
               /\ Unwrap(metadata_db[id]).title = ExpectedTitle(e.title)
               /\ bodies_db[id] = Some(e.body)
               /\ IsSome(metadata(id))
               /\ Unwrap(metadata(id)).title = ExpectedTitle(e.title)

\* C3 witness: three edits, the last one to a blank title, two writes, and the
\* loop has exited.
C3_Witness ==
    /\ Idle(User("u1")) /\ ~failed[User("u1")]
    /\ Len(submitted[User("u1")]) = 3
    /\ submitted[User("u1")][3].title = <<" ">>
    /\ commits[User("u1")] = <<2, 3>>
    /\ Unwrap(metadata_db[User("u1")]).title = None

\* C4: at any time at most one task spawned by the loop's calls of
\* PromptStore::save is waiting to run for an id, and at most one loop exists
\* for an id.
C4_OneWriteInFlight ==
    \A id \in UserIds :
        /\ Cardinality({t \in tasks : t.id = id /\ t.edit # 0}) <= 1
        /\ Cardinality({l \in loops : l.id = id}) <= 1

\* C4 witness: a write is in flight, a newer edit is waiting in the slot, and
\* the one loop is awaiting the write.
C4_Witness ==
    /\ \E t \in tasks : t.id = User("u1") /\ t.edit = 1
    /\ IsSome(Unwrap(prompt_editors[User("u1")]).next_title_and_body_to_save)
    /\ Len(submitted[User("u1")]) = 3
    /\ \E l \in loops : l.id = User("u1") /\ l.pc = "save"

StrictlyIncreasing(seq) == \A i, j \in 1..Len(seq) : i < j => seq[i] < seq[j]

\* C5: the edits passed to PromptStore::save by the loop, and the edits whose
\* transactions committed, are in submission order.
C5_WritesInSubmissionOrder ==
    \A id \in UserIds :
        /\ StrictlyIncreasing(writes[id])
        /\ StrictlyIncreasing(commits[id])

\* C5 witness: the first two edits were written one after the other and the
\* third is waiting in the slot.
C5_Witness ==
    /\ commits[User("u1")] = <<1, 2>>
    /\ writes[User("u1")] = <<1, 2>>
    /\ Len(submitted[User("u1")]) = 3

----------------------------------------------------------------------------
(* PromptStore::search *)

\* The limit on the number of matches that search passes to fuzzy::match_strings.
max_results == 100

\* The candidates given to the matcher: one for every record of cached_metadata
\* that has a title, with the index of the record as its id.
candidates_enumerated_after_filter(cached_metadata) ==
    LET titled == SelectSeq(cached_metadata, LAMBDA m : IsSome(m.title))
    IN [k \in 1..Len(titled) |-> [id |-> k, string |-> Unwrap(titled[k].title)]]

candidates(cached_metadata) ==
    LET ixs == SelectSeq([ix \in 1..Len(cached_metadata) |-> ix],
                         LAMBDA ix : IsSome(cached_metadata[ix].title))
    IN [k \in 1..Len(ixs) |->
            [id |-> ixs[k], string |-> Unwrap(cached_metadata[ixs[k]].title)]]

\* The query fuzzy-matches the string: its characters occur in it, in order.
RECURSIVE fuzzy_match(_, _)
fuzzy_match(query, string) ==
    IF query = <<>> THEN TRUE
    ELSE IF string = <<>> THEN FALSE
    ELSE IF Head(query) = Head(string) THEN fuzzy_match(Tail(query), Tail(string))
    ELSE fuzzy_match(query, Tail(string))

\* fuzzy::match_strings: the candidates that match, in order of relevance, cut
\* to max results.  The scoring is the matcher's own: any order is possible.
match_strings(cands, query, max) ==
    LET matched == SelectSeq(cands, LAMBDA c : fuzzy_match(query, c.string))
        n == Len(matched)
    IN {SubSeq([i \in 1..n |-> matched[f[i]]], 1, IF n < max THEN n ELSE max)
        : f \in Bijections(n)}

\* `matches` of search before its sort, for the empty query as well.
matches_always_from_matcher(cached_metadata, query) ==
    {[i \in 1..Len(m) |-> cached_metadata[m[i].id]]
     : m \in match_strings(candidates(cached_metadata), query, max_results)}

\* `let mut matches = if query.is_empty() { .. } else { .. }` of search: the
\* values it can have.
matches_of(cached_metadata, query) ==
    IF query = <<>> THEN {cached_metadata}
    ELSE {[i \in 1..Len(m) |-> cached_metadata[m[i].id]]
          : m \in match_strings(candidates(cached_metadata), query, max_results)}

\* sort_by_key without the Reverse.
sort_by_key_default(matches) ==
    SelectSeq(matches, LAMBDA m : ~m.default) \o SelectSeq(matches, LAMBDA m : m.default)

\* matches.sort_by_key(|metadata| Reverse(metadata.default)): a stable sort on
\* a key with two values, TRUE first.
sort_by_key_reverse_default(matches) ==
    SelectSeq(matches, LAMBDA m : m.default) \o SelectSeq(matches, LAMBDA m : ~m.default)

\* The closure spawned by search, on the clone of the cache's list taken at
\* the call: what it can return, each with `matches` as it was before the sort.
search(cached_metadata, query) ==
    {[matches |-> m, result |-> sort_by_key_reverse_default(m)]
     : m \in matches_of(cached_metadata, query)}

Queries == {<<>>, <<"A">>, <<"B">>, <<"A", "B">>}

\* PromptStore::search up to the spawn: the list of the cache is cloned.
SearchCall ==
    /\ opened
    /\ ~IsSome(pending_search)
    /\ \E query \in Queries :
          pending_search' = Some([query |-> query,
                                  cached_metadata |-> metadata_cache.metadata])
    /\ last' = Step("search", EditWorkflow, NoArgs, "Task", NoTask)
    /\ UNCHANGED <<opened, metadata_db, bodies_db, metadata_v1_db, bodies_v1_db,
                   metadata_cache, tasks, clock, latest>>
    /\ UNCHANGED <<libraryVars, upgradeVars, creating, found>>
    /\ UNCHANGED globalVars

\* The spawned closure runs.
SearchDone ==
    /\ IsSome(pending_search)
    /\ LET p == Unwrap(pending_search)
       IN \E r \in search(p.cached_metadata, p.query) :
             found' = [query |-> p.query, cached_metadata |-> p.cached_metadata,
                       matches |-> r.matches, result |-> r.result]
    /\ pending_search' = None
    /\ last' = Step("search_done", EditWorkflow, NoArgs, "Ok", NoTask)
    /\ UNCHANGED <<opened, metadata_db, bodies_db, metadata_v1_db, bodies_v1_db,
                   metadata_cache, tasks, clock, latest>>
    /\ UNCHANGED <<libraryVars, upgradeVars, creating>>
    /\ UNCHANGED globalVars

----------------------------------------------------------------------------
(* Specification of search: a store opened on up to three prompts, searched  *)

SearchTitles == {None, Some(<<"A">>), Some(<<"B", "A">>)}

SearchRows ==
    {[metadata |-> None, body |-> None]} \cup
    {[metadata |-> Some([title |-> title, default |-> default, saved_at |-> saved_at]),
      body |-> Some(<<"x">>)]
     : title \in SearchTitles, default \in BOOLEAN, saved_at \in {1, MaxSavedAt}}

SearchDisks ==
    {[metadata |-> [id \in PromptIds |->
                      IF is_built_in(id) \/ ~IsSome(rows[id[2]].metadata) THEN None
                      ELSE LET m == Unwrap(rows[id[2]].metadata)
                           IN Some(PromptMetadata(id, m.title, m.default, m.saved_at))],
      bodies |-> [id \in PromptIds |-> IF is_built_in(id) THEN None ELSE rows[id[2]].body],
      metadata_v1 |-> AbsentV1, bodies_v1 |-> AbsentV1]
     : rows \in [Uuids -> SearchRows]}

InitSearch ==
    InitClosed(SearchDisks) /\ InitLibraryVars /\ InitUpgradeVars /\ InitUiVars /\ InitGlobalVars

NextSearch == New \/ SearchCall \/ SearchDone

SpecSearch == InitSearch /\ [][NextSearch]_vars

----------------------------------------------------------------------------
(* Claims about search *)

\* The number of times the record occurs in the sequence.
Occurrences(seq, m) == Cardinality({i \in 1..Len(seq) : seq[i] = m})

\* The sequences hold the same records, each as many times.
SameRecords(a, b) ==
    /\ Len(a) = Len(b)
    /\ \A i \in 1..Len(a) : Occurrences(b, a[i]) = Occurrences(a, a[i])

\* In `seq` every record with default = TRUE comes before every one without.
DefaultsFirst(seq) ==
    \A i, j \in 1..Len(seq) : (i < j /\ seq[j].default) => seq[i].default

\* Two records of `seq` with the same default flag are in the order they have
\* in `before`.
GroupsKeepOrder(seq, before) ==
    \A i, j \in 1..Len(seq) :
        (i < j /\ seq[i].default = seq[j].default) =>
            \E k, l \in 1..Len(before) : k < l /\ before[k] = seq[i] /\ before[l] = seq[j]

\* C13 as claimed: search with the empty query returns the records of the
\* cache, each once, in the order of the cache.
C13_EmptyQueryCacheOrder ==
    found.query = <<>> => found.result = found.cached_metadata

\* C13 as amended: search with the empty query returns every record the cache
\* held at the call exactly once; the records with default = TRUE come first,
\* and the records with the same default flag are in the order of the cache.
C13_EmptyQueryAllRecords ==
    found.query = <<>> =>
        /\ SameRecords(found.result, found.cached_metadata)
        /\ \A i \in 1..Len(found.result) : Occurrences(found.result, found.result[i]) = 1
        /\ DefaultsFirst(found.result)
        /\ GroupsKeepOrder(found.result, found.cached_metadata)

\* C13 witness: the empty query on a cache of three records, the first of
\* which is not default and the last of which is.
C13_Witness ==
    /\ last.op = "search_done" /\ found.query = <<>>
    /\ Len(found.cached_metadata) = 3
    /\ ~found.cached_metadata[1].default /\ ~found.cached_metadata[2].default
    /\ found.cached_metadata[3].default
    /\ found.result = <<found.cached_metadata[3], found.cached_metadata[1],
                        found.cached_metadata[2]>>

\* C14: for every query the result of search holds the records that `matches`
\* held before the re-ordering (the list of the cache for the empty query, the
\* matcher's list otherwise); every record with default = TRUE precedes every
\* record with default = FALSE, and two records with the same flag are in the
\* order they had before.
C14_DefaultsFirstStable ==
    /\ SameRecords(found.result, found.matches)
    /\ found.query = <<>> => found.matches = found.cached_metadata
    /\ DefaultsFirst(found.result)
    /\ GroupsKeepOrder(found.result, found.matches)

\* C14 witness: a query that matched three records, which the matcher ordered
\* otherwise than the cache, the first one not default, the second default.
C14_Witness ==
    /\ last.op = "search_done" /\ found.query = <<"A">>
    /\ Len(found.matches) = 3
    /\ found.matches # found.cached_metadata
    /\ ~found.matches[1].default /\ found.matches[2].default /\ ~found.matches[3].default
    /\ found.result = <<found.matches[2], found.matches[1], found.matches[3]>>

----------------------------------------------------------------------------
(* PromptLibrary: new_prompt and duplicate_prompt *)

DUPLICATE_SUFFIX == <<" ", "c", "o", "p", "y">>

Digits == <<"0", "1", "2", "3", "4", "5", "6", "7", "8", "9">>

\* format!("{i}") for a positive integer.
RECURSIVE decimal(_)
decimal(i) ==
    IF i < 10 THEN <<Digits[i + 1]>>
    ELSE decimal(i \div 10) \o <<Digits[(i % 10) + 1]>>

\* str::starts_with.
starts_with(s, prefix) ==
    Len(prefix) <= Len(s) /\ SubSeq(s, 1, Len(prefix)) = prefix

\* `existing_titles` of duplicate_prompt: the texts of the title editors of
\* the other open prompts that start with the title to duplicate.
existing_titles(prompt_id, title_to_duplicate) ==
    {Unwrap(prompt_editors[id]).title :
        id \in {id \in PromptIds \ {prompt_id} :
                    /\ IsSome(prompt_editors[id])
                    /\ starts_with(Unwrap(prompt_editors[id]).title, title_to_duplicate)}}

\* The `loop` of duplicate_prompt, entered with i.
RECURSIVE numbered_title(_, _, _)
numbered_title(title_to_duplicate, existing, i) ==
    LET new_title == title_to_duplicate \o DUPLICATE_SUFFIX \o <<" ">> \o decimal(i)
    IN IF new_title \notin existing THEN new_title
       ELSE numbered_title(title_to_duplicate, existing, i + 1)

\* `title` of duplicate_prompt for the open prompt prompt_id.
duplicate_title(prompt_id) ==
    LET title_to_duplicate == Unwrap(prompt_editors[prompt_id]).title
        existing == existing_titles(prompt_id, title_to_duplicate)
    IN IF existing = {} THEN title_to_duplicate \o DUPLICATE_SUFFIX
       ELSE numbered_title(title_to_duplicate, existing, 1)

\* A foreground task that awaits the save made at `at` and then loads the prompt.
Creation(id, at) == [id |-> id, at |-> at, res |-> ""]

\* PromptLibrary::load_prompt at the call: an open prompt is focused; for
\* another one that the cache knows, PromptStore::load is called and
\* pending_load replaced.
load_prompt(prompt_id) ==
    IF IsSome(prompt_editors[prompt_id]) THEN pending_load' = pending_load
    ELSE IF IsSome(metadata(prompt_id))
         THEN pending_load' =
                  Some([id |-> prompt_id, title |-> Unwrap(metadata(prompt_id)).title])
         ELSE pending_load' = pending_load

\* PromptLibrary::duplicate_prompt for an open prompt, up to the spawn; new_id
\* is what PromptId::new returns.
duplicate_prompt(prompt_id, new_id) ==
    /\ save(new_id, Some(duplicate_title(prompt_id)), FALSE,
            Unwrap(prompt_editors[prompt_id]).body, 0)
    /\ creating' = creating \cup {Creation(new_id, clock + 1)}
    /\ pending_load' = pending_load

\* new_prompt without the test for an untitled first prompt.
new_prompt_always_creates(prompt_id) ==
    /\ save(prompt_id, None, FALSE, <<>>, 0)
    /\ creating' = creating \cup {Creation(prompt_id, clock + 1)}
    /\ pending_load' = pending_load

\* PromptLibrary::new_prompt up to the spawn; prompt_id is what PromptId::new
\* returns when it is called.
new_prompt(prompt_id) ==
    IF IsSome(first) /\ ~IsSome(Unwrap(first).title)
    THEN /\ load_prompt(Unwrap(first).id)
         /\ UNCHANGED <<metadata_cache, tasks, clock, latest, creating>>
    ELSE /\ save(prompt_id, None, FALSE, <<>>, 0)
         /\ creating' = creating \cup {Creation(prompt_id, clock + 1)}
         /\ pending_load' = pending_load

\* Uuid::new_v4 returns a random uuid: one that nothing holds yet.
Fresh(uuid) ==
    /\ ~IsSome(metadata(User(uuid)))
    /\ ~IsSome(metadata_db[User(uuid)]) /\ ~IsSome(bodies_db[User(uuid)])
    /\ ~IsSome(metadata_v1_db.rows[uuid]) /\ ~IsSome(bodies_v1_db.rows[uuid])
    /\ ~IsSome(prompt_editors[User(uuid)])
    /\ ~\E t \in tasks : t.id = User(uuid)
    /\ ~\E c \in creating : c.id = User(uuid)

\* The user asks for a new prompt.
NewPrompt ==
    /\ opened /\ CanSpawn /\ clock < MaxSavedAt + MaxCalls
    /\ \E uuid \in Uuids :
          /\ Fresh(uuid)
          /\ new_prompt(User(uuid))
          /\ last' = IF IsSome(first) /\ ~IsSome(Unwrap(first).title)
                     THEN Step("new_prompt", Unwrap(first).id, NoArgs, "load_prompt", NoTask)
                     ELSE Step("new_prompt", User(uuid), NoArgs, "Task", NoTask)
    /\ UNCHANGED <<opened, metadata_db, bodies_db, metadata_v1_db, bodies_v1_db>>
    /\ UNCHANGED <<prompt_editors, loops, submitted, writes, commits, failed>>
    /\ UNCHANGED <<upgradeVars, pending_search, found>>
    /\ UNCHANGED globalVars

\* The user duplicates an open prompt; `last` keeps the new prompt's id, title
\* and body, and the id of the prompt duplicated.
DuplicatePrompt ==
    /\ opened /\ CanSpawn /\ clock < MaxSavedAt + MaxCalls
    /\ \E prompt_id \in PromptIds, uuid \in Uuids :
          /\ IsSome(prompt_editors[prompt_id])
          /\ Fresh(uuid)
          /\ duplicate_prompt(prompt_id, User(uuid))
          /\ last' = Step("duplicate_prompt", User(uuid),
                          [title |-> Some(duplicate_title(prompt_id)), default |-> FALSE,
                           body |-> Unwrap(prompt_editors[prompt_id]).body],
                          "Task", Task("source", prompt_id, None, None, 0, 0))
    /\ UNCHANGED <<opened, metadata_db, bodies_db, metadata_v1_db, bodies_v1_db>>
    /\ UNCHANGED <<prompt_editors, loops, submitted, writes, commits, failed>>
    /\ UNCHANGED <<upgradeVars, pending_search, found>>
    /\ UNCHANGED globalVars

\* The task spawned by new_prompt or duplicate_prompt goes on after
\* `save.await?`: on Ok it calls load_prompt, on Err it ends.
CreateDone ==
    /\ \E c \in creating :
          /\ c.res # ""
          /\ creating' = creating \ {c}
          /\ IF c.res = "Ok" THEN load_prompt(c.id) ELSE pending_load' = pending_load
          /\ last' = Step("created", c.id, NoArgs, c.res, NoTask)
    /\ UNCHANGED <<opened, metadata_db, bodies_db, metadata_v1_db, bodies_v1_db,
                   metadata_cache, tasks, clock, latest>>
    /\ UNCHANGED <<prompt_editors, loops, submitted, writes, commits, failed>>
    /\ UNCHANGED <<upgradeVars, pending_search, found>>
    /\ UNCHANGED globalVars

----------------------------------------------------------------------------
(* Specification of the library: a store opened on up to two prompts, which  *)
(* are opened in editors, duplicated, and new ones created                   *)

LibraryTitles ==
    {None, Some(<<"A">>), Some(<<"A">> \o DUPLICATE_SUFFIX), Some(<<"A", "B">>)}

LibraryRows ==
    {[metadata |-> None, body |-> None]} \cup
    {[metadata |-> Some([title |-> title, default |-> FALSE, saved_at |-> 1]),
      body |-> Some(<<"x">>)]
     : title \in LibraryTitles}

LibraryDisks ==
    {[metadata |-> [id \in PromptIds |->
                      IF is_built_in(id) \/ id[2] \notin DiskUuids THEN None
                      ELSE IF ~IsSome(rows[id[2]].metadata) THEN None
                      ELSE LET m == Unwrap(rows[id[2]].metadata)
                           IN Some(PromptMetadata(id, m.title, m.default, m.saved_at))],
      bodies |-> [id \in PromptIds |->
                      IF is_built_in(id) \/ id[2] \notin DiskUuids THEN None
                      ELSE rows[id[2]].body],
      metadata_v1 |-> AbsentV1, bodies_v1 |-> AbsentV1]
     : rows \in [DiskUuids -> LibraryRows]}

InitLibrary ==
    InitClosed(LibraryDisks) /\ InitLibraryVars /\ InitUpgradeVars /\ InitUiVars /\ InitGlobalVars

NextLibrary ==
    \/ New \/ LoadPrompt \/ LoadPromptDone
    \/ NewPrompt \/ DuplicatePrompt \/ CreateDone
    \/ TaskCommits \/ TaskFails

SpecLibrary == InitLibrary /\ [][NextLibrary]_vars

----------------------------------------------------------------------------
(* Claims about duplicate_prompt and new_prompt *)

\* duplicate_prompt was just called for an open prompt that has a title.
DuplicateMade ==
    /\ last.op = "duplicate_prompt"
    /\ Unwrap(prompt_editors[last.task.id]).title # <<>>

\* The title of the prompt just duplicated.
DuplicatedTitle == Unwrap(prompt_editors[last.task.id]).title

\* The titles of the entries that existed when duplicate_prompt was called:
\* those of the cache but for the entry the call has made.
TitlesBefore ==
    {metadata_cache.metadata[i].title :
        i \in {i \in 1..Len(metadata_cache.metadata) :
                  metadata_cache.metadata[i].id # last.id}}

CopyTitle(title) == Some(title \o DUPLICATE_SUFFIX)
NumberedTitle(title, k) == Some(title \o DUPLICATE_SUFFIX \o <<" ">> \o decimal(k))

\* C16: when an entry titled T is duplicated and an entry titled "T copy"
\* exists, the new entry is titled "T copy k" for the smallest k >= 1 such
\* that no entry is titled "T copy k".
C16_DuplicateCounter ==
    (DuplicateMade /\ CopyTitle(DuplicatedTitle) \in TitlesBefore) =>
        \E k \in 1..(Len(metadata_cache.metadata) + 1) :
            /\ last.title = NumberedTitle(DuplicatedTitle, k)
            /\ NumberedTitle(DuplicatedTitle, k) \notin TitlesBefore
            /\ \A j \in 1..(k - 1) : NumberedTitle(DuplicatedTitle, j) \in TitlesBefore

\* C17: when an entry titled T is duplicated and no entry is titled "T copy",
\* the new entry is titled "T copy", without a counter.
C17_DuplicatePlainSuffix ==
    (DuplicateMade /\ CopyTitle(DuplicatedTitle) \notin TitlesBefore) =>
        last.title = CopyTitle(DuplicatedTitle)

\* new_prompt finds a first prompt in the cache that has no title.
FirstIsUntitled == IsSome(first) /\ ~IsSome(Unwrap(first).title)

\* A step of new_prompt that creates a prompt: its identifier is one that
\* neither the cache nor the tables hold, its first save (no title, not
\* default, empty body) is spawned, and the cache holds one more record.
NewPromptCreates ==
    /\ last'.res = "Task"
    /\ ~IsSome(metadata_cache.metadata_by_id[last'.id])
    /\ ~IsSome(metadata_db[last'.id]) /\ ~IsSome(bodies_db[last'.id])
    /\ ~is_built_in(last'.id)
    /\ \E t \in tasks' \ tasks :
          /\ t.kind = "save" /\ t.id = last'.id
          /\ t.metadata = Some(PromptMetadata(last'.id, None, FALSE, clock'))
          /\ t.body = Some(<<>>)
    /\ \E c \in creating' \ creating : c.id = last'.id
    /\ Len(metadata_cache'.metadata) = Len(metadata_cache.metadata) + 1
    /\ IsSome(metadata_cache'.metadata_by_id[last'.id])

\* C18 as claimed: every call of new_prompt creates a prompt.
C18_NewPromptAlwaysCreates ==
    [][last'.op = "new_prompt" => NewPromptCreates]_vars

\* C18 as amended: a call of new_prompt creates a prompt unless the first
\* prompt of the cache has no title; then it loads that prompt, allocates no
\* identifier, spawns no save and leaves the cache as it is.
C18_NewPromptCreatesUnlessUntitled ==
    [][last'.op = "new_prompt" =>
        IF FirstIsUntitled
        THEN /\ last'.res = "load_prompt"
             /\ last'.id = Unwrap(first).id
             /\ UNCHANGED <<metadata_cache, tasks, creating, metadata_db, bodies_db>>
        ELSE NewPromptCreates]_vars

\* C18 witness: new_prompt was just called on a cache whose one prompt has a
\* title: the cache now also holds the new prompt, whose save is spawned.
C18_Witness ==
    /\ last.op = "new_prompt" /\ last.res = "Task"
    /\ Len(metadata_cache.metadata) = 2
    /\ metadata_cache.metadata[1].id = last.id
    /\ metadata_cache.metadata[2].title = Some(<<"A">>)
    /\ \E t \in tasks : t.id = last.id /\ t.kind = "save"
    /\ \E c \in creating : c.id = last.id /\ c.res = ""


----------------------------------------------------------------------------
(* Claims on the cache and the metadata table, under Spec *)

\* Every closure spawned so far has run, and none of them failed.
AllWritesSucceeded == tasks = {} /\ \A id \in PromptIds : ~failed[id]

\* C21: whenever every write and delete issued so far has completed
\* successfully, the cache and the metadata table hold the same record (or
\* both none) for every identifier, in whatever order the closures ran.
C21_CacheAgreesWithTable ==
    (opened /\ AllWritesSucceeded) =>
        \A id \in PromptIds : metadata_cache.metadata_by_id[id] = metadata_db[id]

\* C22: every step that replaces the record of an identifier in the metadata
\* table stores a saved_at strictly greater than the one it replaces.
C22_SavedAtIncreases ==
    [][\A id \in PromptIds :
          (/\ IsSome(metadata_db[id]) /\ IsSome(metadata_db'[id])
           /\ metadata_db'[id] # metadata_db[id]) =>
              Unwrap(metadata_db'[id]).saved_at > Unwrap(metadata_db[id]).saved_at]_vars


----------------------------------------------------------------------------
(* Specification of the cache: the store opened on tables that hold several *)
(* prompts, then any calls                                                  *)

CacheRow(uuid, title, saved_at) ==
    RowV2(User(uuid), title, FALSE, saved_at, <<"x">>)

\* Tables written by earlier runs: two prompts with different titles, and two
\* prompts with the same title and the same saved_at.
CacheDisks ==
    {[metadata |-> [id \in PromptIds |->
                      IF id = User("u2") THEN rows[1].metadata
                      ELSE IF id = User("u3") THEN rows[2].metadata ELSE None],
      bodies |-> [id \in PromptIds |->
                      IF id = User("u2") THEN rows[1].body
                      ELSE IF id = User("u3") THEN rows[2].body ELSE None],
      metadata_v1 |-> AbsentV1, bodies_v1 |-> AbsentV1]
     : rows \in {<<CacheRow("u2", Some(<<"B">>), 1), CacheRow("u3", Some(<<"A">>), MaxSavedAt)>>,
                 <<CacheRow("u2", Some(<<"A">>), 1), CacheRow("u3", Some(<<"A">>), 1)>>}}

InitCache == InitClosed(CacheDisks) /\ InitLibraryVars /\ InitUpgradeVars /\ InitUiVars /\ InitGlobalVars

\* from_db at open, insert by save, remove by delete.
NextCache == New \/ Save \/ Delete \/ TaskCommits \/ TaskFails

SpecCache == InitCache /\ [][NextCache]_vars

\* The records of the map, in key order.
CachedRecords == db_rows(metadata_cache.metadata_by_id, IdOrder)

\* The sequence is ordered: untitled entries first, then by title, entries
\* with equal titles by saved_at descending.
Ordered(m) ==
    \A i, j \in 1..Len(m) :
        i < j =>
            /\ IsSome(m[i].title) => IsSome(m[j].title)
            /\ (IsSome(m[i].title) /\ IsSome(m[j].title)) =>
                  cmp_str(Unwrap(m[i].title), Unwrap(m[j].title)) <= 0
            /\ m[i].title = m[j].title => m[i].saved_at >= m[j].saved_at

\* No two records have the same title and the same saved_at.
NoTies(m) ==
    \A i, j \in 1..Len(m) :
        i # j => (m[i].title # m[j].title \/ m[i].saved_at # m[j].saved_at)

\* C23 as stated: after open and after every insert or remove the ordered
\* sequence is sorted (untitled first, equal titles by saved_at descending)
\* and is determined by the records alone, whatever order they arrived in.
C23_OrderIndependent ==
    opened =>
        /\ Ordered(metadata_cache.metadata)
        /\ sort(CachedRecords) = {metadata_cache.metadata}

\* C23 amended: the sequence holds the records of the map, each once, sorted
\* (untitled first, equal titles by saved_at descending); when no two records
\* share both title and saved_at it is determined by the records alone.
C23_SortedByTitleThenSavedAt ==
    opened =>
        /\ Ordered(metadata_cache.metadata)
        /\ SameRecords(metadata_cache.metadata, CachedRecords)
        /\ NoTies(CachedRecords) => sort(CachedRecords) = {metadata_cache.metadata}

\* A save put a record in front of a record of the same title and older
\* saved_at, both in front of a record with a greater title.
C23_Witness ==
    /\ opened /\ last.op = "save"
    /\ Len(metadata_cache.metadata) = 3
    /\ metadata_cache.metadata[1].id = User("u1")
    /\ metadata_cache.metadata[1].title = metadata_cache.metadata[2].title
    /\ metadata_cache.metadata[1].saved_at > metadata_cache.metadata[2].saved_at
    /\ metadata_cache.metadata[3].title = Some(<<"B">>)


----------------------------------------------------------------------------
(* Specification of open: PromptStore::new on any tables, the rows of the   *)
(* deprecated built-in prompt among them                                    *)

EditWorkflowMetadataRows == {None, Some(PromptMetadata(EditWorkflow, None, TRUE, 1))}
EditWorkflowBodyRows == {None, Some(<<"x">>)}

OpenDisks ==
    {[disk EXCEPT !.metadata[EditWorkflow] = m, !.bodies[EditWorkflow] = b] :
        disk \in UpgradeDisks, m \in EditWorkflowMetadataRows, b \in EditWorkflowBodyRows}

InitOpen == InitClosed(OpenDisks) /\ InitLibraryVars /\ InitUpgradeVars /\ InitUiVars /\ InitGlobalVars

NextOpen == New

SpecOpen == InitOpen /\ [][NextOpen]_vars

\* C24: after every open the EditWorkflow identifier has no row in the
\* metadata table, none in the bodies table and no entry in the cache,
\* whatever the tables held before and whether the migration ran or failed.
C24_EditWorkflowPurged ==
    (opened /\ last.op = "new") =>
        /\ metadata_db[EditWorkflow] = None
        /\ bodies_db[EditWorkflow] = None
        /\ metadata_cache.metadata_by_id[EditWorkflow] = None
        /\ \A i \in 1..Len(metadata_cache.metadata) :
              metadata_cache.metadata[i].id # EditWorkflow

\* The store was opened on tables that held both EditWorkflow rows and legacy
\* tables, and the migration ran.
C24_Witness ==
    /\ opened /\ last.op = "new" /\ last.res = "Ok"
    /\ IsSome(before_run.metadata[EditWorkflow]) /\ IsSome(before_run.bodies[EditWorkflow])
    /\ metadata_v1_db.exists /\ bodies_v1_db.exists
    /\ metadata_db[EditWorkflow] = None /\ bodies_db[EditWorkflow] = None

\* C25: an open whose migration fails still yields a store (its cache built
\* from the metadata table), and the v2 tables hold what they held when the
\* migration started, that is what the open found less the EditWorkflow rows.
C25_FailedUpgradeChangesNothing ==
    [][(last'.op = "new" /\ last'.res = "Ok(upgrade failed)") =>
          /\ opened'
          /\ \A id \in PromptIds :
                /\ metadata_db'[id] = IF id = EditWorkflow THEN None ELSE metadata_db[id]
                /\ bodies_db'[id] = IF id = EditWorkflow THEN None ELSE bodies_db[id]
          /\ metadata_cache' \in from_db(metadata_db')]_vars

\* The migration of an open failed where a legacy prompt with a body was to
\* be written to the v2 tables, which still lack it.
C25_Witness ==
    /\ opened /\ last.op = "new" /\ last.res = "Ok(upgrade failed)"
    /\ LegacyPrompt("u1")
    /\ before_run.metadata[User("u1")] = None
    /\ metadata_db[User("u1")] = None /\ bodies_db[User("u1")] = None


----------------------------------------------------------------------------
(* The save loop and failed writes *)

\* The edit number of the last call of PromptStore::save made for id, 0 if none.
LastWrite(id) == IF writes[id] = <<>> THEN 0 ELSE writes[id][Len(writes[id])]

\* The transaction that carried edit number n of id committed.
Committed(id, n) == \E i \in 1..Len(commits[id]) : commits[id][i] = n

\* C26: a failed write does not end the loop.  While an edit waits in the slot
\* or pending_save is set, the loop of the prompt exists, also after a write
\* failed; and once the pipeline is idle again after a failed write, the last
\* edit submitted has been passed to PromptStore::save, and the tables hold it
\* if its own transaction committed.
C26_FailedWriteKeepsLoop ==
    \A id \in UserIds :
        IsSome(prompt_editors[id]) =>
            LET prompt_editor == Unwrap(prompt_editors[id])
                n == Len(submitted[id])
            IN /\ (\/ IsSome(prompt_editor.next_title_and_body_to_save)
                   \/ IsSome(prompt_editor.pending_save)) =>
                      \E l \in loops : l.id = id
               /\ (failed[id] /\ Idle(id)) => LastWrite(id) = n
               /\ (failed[id] /\ Idle(id) /\ n > 0 /\ Committed(id, n)) =>
                      /\ IsSome(metadata_db[id])
                      /\ Unwrap(metadata_db[id]).title = ExpectedTitle(submitted[id][n].title)
                      /\ bodies_db[id] = Some(submitted[id][n].body)

\* The write of the first edit failed, the second edit was taken by the same
\* loop and committed, and the loop has exited.
C26_Witness ==
    /\ Idle(User("u1")) /\ failed[User("u1")]
    /\ writes[User("u1")] = <<1, 2>>
    /\ commits[User("u1")] = <<2>>
    /\ bodies_db[User("u1")] = Some(submitted[User("u1")][2].body)

----------------------------------------------------------------------------
(* Specification of the save loop with its scheduling: the foreground       *)
(* executor polls a loop that can go on, the background executor runs every *)
(* spawned closure, and the timer of a waiting loop fires                   *)

NextDrain ==
    \/ New \/ LoadPrompt \/ LoadPromptDone \/ Edit
    \/ LoopSavesAnyTime \/ LoopSaved \/ LoopExits \/ TimerTick
    \/ TaskCommits \/ TaskFails

SpecDrain ==
    /\ InitCoalescer /\ [][NextDrain]_vars
    /\ WF_vars(LoopSavesAnyTime) /\ WF_vars(LoopSaved) /\ WF_vars(LoopExits)
    /\ WF_vars(TimerTick) /\ WF_vars(TaskCommits \/ TaskFails)

\* The identifiers of the prompts on disk, the ones that can be opened and
\* edited.
EditedIds == {id \in UserIds : \E disk \in CoalescerDisks : IsSome(disk.metadata[id])}

\* pending_save of the editor of id is set.
Draining(id) ==
    IsSome(prompt_editors[id]) /\ IsSome(Unwrap(prompt_editors[id]).pending_save)

\* C27: whenever the pipeline of an identifier is draining, it eventually is
\* idle again (slot found empty, loop gone, pending_save cleared), whether the
\* writes of the loop committed or failed.  Edits stop: there are at most
\* MaxEdits of them.
C27_DrainTerminates == \A id \in EditedIds : Draining(id) ~> Idle(id)

\* The only write of the loop failed and the loop has exited.
C27_Witness ==
    /\ Idle(User("u1")) /\ failed[User("u1")]
    /\ last.op = "loop_exit"
    /\ writes[User("u1")] = <<1>>
    /\ commits[User("u1")] = <<>>


----------------------------------------------------------------------------
(* Specification of save_prompt for any identifier: the save loop of the    *)
(* prompt on disk, and calls of save_prompt with a built-in identifier      *)

BuiltInIds == {id \in PromptIds : is_built_in(id)}

\* save_prompt is called with a built-in identifier.
EditBuiltIn ==
    /\ opened
    /\ \E id \in BuiltInIds, title \in TitleTexts, body \in BodyTexts :
          /\ save_prompt(id, title, body)
          /\ last' = Step("save_prompt", id,
                          [title |-> Some(title), default |-> FALSE, body |-> body],
                          "", NoTask)
    /\ UNCHANGED <<opened, metadata_db, bodies_db, metadata_v1_db, bodies_v1_db,
                   metadata_cache, tasks, clock, latest>>
    /\ UNCHANGED <<pending_load, writes, commits, failed, upgradeVars, uiVars>>
    /\ UNCHANGED globalVars

NextBuiltIn ==
    \/ New \/ LoadPrompt \/ LoadPromptDone \/ Edit \/ EditBuiltIn
    \/ LoopSavesAnyTime \/ LoopSaved \/ LoopExits \/ TimerTick
    \/ TaskCommits \/ TaskFails

SpecBuiltIn == InitCoalescer /\ [][NextBuiltIn]_vars

\* Nothing of the save pipeline exists for id: no editor and so no pending
\* value, no loop, no task, no edit on record.
NoPipeline(id) ==
    /\ prompt_editors[id] = None
    /\ ~\E l \in loops : l.id = id
    /\ ~\E t \in tasks : t.id = id
    /\ submitted[id] = <<>> /\ writes[id] = <<>>

\* C28: a call of save_prompt with a built-in identifier changes no editor,
\* spawns no loop, makes no write and no cache update, and no pipeline ever
\* exists for a built-in identifier.
C28_SavePromptBuiltInNoEffect ==
    /\ [](\A id \in BuiltInIds : NoPipeline(id))
    /\ [][(last' # last /\ last'.op = "save_prompt" /\ is_built_in(last'.id)) =>
             UNCHANGED <<prompt_editors, loops, submitted, writes, tasks, clock,
                         metadata_cache, metadata_db, bodies_db>>]_vars

\* save_prompt was called with the EditWorkflow identifier while the loop of
\* the user's prompt was awaiting a write.
C28_Witness ==
    /\ last.op = "save_prompt" /\ last.id = EditWorkflow
    /\ NoPipeline(EditWorkflow)
    /\ \E l \in loops : l.id = User("u1") /\ l.pc = "save"
    /\ \E t \in tasks : t.id = User("u1")


----------------------------------------------------------------------------
(* save_metadata and the bodies table, under Spec *)

\* C30: neither the call of save_metadata nor its spawned closure changes the
\* bodies table, for any identifier; the call changes no table, and the
\* closure replaces the one metadata row in the step in which it commits, or
\* changes nothing when it fails.
C30_SaveMetadataKeepsBodies ==
    [][/\ last'.op = "save_metadata" => UNCHANGED <<metadata_db, bodies_db>>
       /\ (last'.op = "task" /\ last'.task.kind = "save_metadata") =>
             /\ bodies_db' = bodies_db
             /\ metadata_db' = IF last'.res = "Ok"
                               THEN [metadata_db EXCEPT ![last'.id] = last'.task.metadata]
                               ELSE metadata_db]_vars

\* The closure of a save_metadata call for a prompt with a body has committed:
\* the metadata row is the new one and the body is still there.
C30_Witness ==
    /\ last.op = "task" /\ last.task.kind = "save_metadata" /\ last.res = "Ok"
    /\ last.id = User("u1")
    /\ metadata_db[User("u1")] = last.task.metadata
    /\ IsSome(bodies_db[User("u1")]) /\ Unwrap(bodies_db[User("u1")]) # <<>>


----------------------------------------------------------------------------
(* The global store: init, PromptStore::global and the callers' awaits      *)

\* The shared future of the global has its output: PromptStore::new returned.
Resolved == opened \/ new_err

\* PromptStore::global that builds a store of its own for each caller.
global_spawns_new(caller) ==
    /\ handles' = [handles EXCEPT ![caller] =
          [future |-> spawned + 1, res |-> "awaiting", early |-> ~Resolved]]
    /\ spawned' = spawned + 1
    /\ UNCHANGED global_store

\* PromptStore::global: the caller gets a clone of the shared future held by
\* the global, to await.
global(caller) ==
    /\ handles' = [handles EXCEPT ![caller] =
          [future |-> Unwrap(global_store), res |-> "awaiting", early |-> ~Resolved]]
    /\ UNCHANGED <<global_store, spawned>>

\* init: PromptStore::new spawns its task, and the shared future made of it
\* is set as the global.  Called once, when the application starts.
InitStore ==
    /\ global_store = None
    /\ spawned' = spawned + 1
    /\ global_store' = Some(spawned + 1)
    /\ last' = Step("init", EditWorkflow, NoArgs, "", NoTask)
    /\ UNCHANGED <<opened, metadata_db, bodies_db, metadata_v1_db, bodies_v1_db,
                   metadata_cache, tasks, clock, latest>>
    /\ UNCHANGED <<libraryVars, upgradeVars, uiVars, new_err, handles>>

\* The task spawned by init runs PromptStore::new to Ok(store).
SpawnedNew == IsSome(global_store) /\ ~new_err /\ New

\* The task spawned by init runs PromptStore::new to an error (create_dir_all,
\* the environment, a transaction or from_db fails).
SpawnedNewFails ==
    /\ IsSome(global_store) /\ ~Resolved
    /\ new_err' = TRUE
    /\ last' = Step("new", EditWorkflow, NoArgs, "Err", NoTask)
    /\ UNCHANGED <<opened, metadata_db, bodies_db, metadata_v1_db, bodies_v1_db,
                   metadata_cache, tasks, clock, latest>>
    /\ UNCHANGED <<libraryVars, upgradeVars, uiVars, global_store, spawned, handles>>

\* A caller requests the store, before or after the future has its output.
Global ==
    /\ IsSome(global_store)
    /\ \E caller \in Callers :
          /\ handles[caller].res # "awaiting"
          /\ global(caller)
          /\ last' = Step("global", EditWorkflow, NoArgs, "", NoTask)
    /\ UNCHANGED <<opened, metadata_db, bodies_db, metadata_v1_db, bodies_v1_db,
                   metadata_cache, tasks, clock, latest>>
    /\ UNCHANGED <<libraryVars, upgradeVars, uiVars, new_err>>

\* The await of a caller returns the output of the shared future.
Await ==
    /\ Resolved
    /\ \E caller \in Callers :
          /\ handles[caller].res = "awaiting"
          /\ handles' = [handles EXCEPT ![caller].res = IF opened THEN "Ok" ELSE "Err"]
          /\ last' = Step("await", EditWorkflow, NoArgs,
                          IF opened THEN "Ok" ELSE "Err", NoTask)
    /\ UNCHANGED <<opened, metadata_db, bodies_db, metadata_v1_db, bodies_v1_db,
                   metadata_cache, tasks, clock, latest>>
    /\ UNCHANGED <<libraryVars, upgradeVars, uiVars, global_store, spawned, new_err>>

NextGlobal == InitStore \/ SpawnedNew \/ SpawnedNewFails \/ Global \/ Await

SpecGlobal == Init /\ [][NextGlobal]_vars

\* C29: PromptStore::new is spawned at most once; every caller awaits the one
\* shared future, whenever it asked; the callers whose await has returned all
\* have the store, or all have the error of the one initialization.
C29_OneSharedInitialization ==
    /\ spawned <= 1
    /\ ~(opened /\ new_err)
    /\ \A caller \in Callers :
          /\ handles[caller].res # "none" => handles[caller].future = 1
          /\ handles[caller].res = "Ok" => opened
          /\ handles[caller].res = "Err" => new_err
    /\ \A c1, c2 \in Callers :
          (handles[c1].res \in {"Ok", "Err"} /\ handles[c2].res \in {"Ok", "Err"}) =>
              handles[c1].res = handles[c2].res

\* One caller asked before the initialization finished and one after it; both
\* have the store.
C29_Witness ==
    /\ opened
    /\ \E c1, c2 \in Callers :
          /\ handles[c1].res = "Ok" /\ handles[c1].early
          /\ handles[c2].res = "Ok" /\ ~handles[c2].early
          /\ handles[c1].future = handles[c2].future

----------------------------------------------------------------------------
(* Reads of the cache: default_prompt_metadata and id_for_title              *)

\* Filter without the predicate: every record of the cache.
default_prompt_metadata_unfiltered ==
    metadata_cache.metadata

\* PromptStore::default_prompt_metadata: the records of the cache's list with
\* default set, cloned in the order of the list.
default_prompt_metadata ==
    SelectSeq(metadata_cache.metadata, LAMBDA m : m.default)

\* find that keeps the last record with the title.
id_for_title_last(title) ==
    LET list == metadata_cache.metadata
        hits == {i \in 1..Len(list) : list[i].title = Some(title)}
    IN IF hits = {} THEN None
       ELSE Some(list[CHOOSE i \in hits : \A j \in hits : j <= i].id)

\* PromptStore::id_for_title: the id of the first record of the cache's list
\* whose title is Some(title); a record without title never compares equal.
id_for_title(title) ==
    LET list == metadata_cache.metadata
        hits == {i \in 1..Len(list) : list[i].title = Some(title)}
    IN IF hits = {} THEN None
       ELSE Some(list[CHOOSE i \in hits : \A j \in hits : i <= j].id)

\* Titles asked for: the empty one, the titles on disk, a prefix of one.
AskedTitles == {<<>>, <<"A">>, <<"B">>, <<"B", "A">>}

\* A call of default_prompt_metadata; `found` keeps what it returned and the
\* list it read.
DefaultPromptMetadata ==
    /\ opened
    /\ found' = [query |-> <<>>, cached_metadata |-> metadata_cache.metadata,
                 matches |-> <<>>, result |-> default_prompt_metadata]
    /\ last' = Step("default_prompt_metadata", EditWorkflow, NoArgs, "Ok", NoTask)
    /\ UNCHANGED <<opened, metadata_db, bodies_db, metadata_v1_db, bodies_v1_db,
                   metadata_cache, tasks, clock, latest>>
    /\ UNCHANGED <<libraryVars, upgradeVars, creating, pending_search>>
    /\ UNCHANGED globalVars

\* A call of id_for_title.
IdForTitle ==
    /\ opened
    /\ \E title \in AskedTitles :
          /\ found' = [query |-> title, cached_metadata |-> metadata_cache.metadata,
                       matches |-> <<>>, result |-> id_for_title(title)]
          /\ last' = Step("id_for_title", EditWorkflow, NoArgs, "Ok", NoTask)
    /\ UNCHANGED <<opened, metadata_db, bodies_db, metadata_v1_db, bodies_v1_db,
                   metadata_cache, tasks, clock, latest>>
    /\ UNCHANGED <<libraryVars, upgradeVars, creating, pending_search>>
    /\ UNCHANGED globalVars

NextRead == New \/ DefaultPromptMetadata \/ IdForTitle

\* A store opened on up to three prompts (the disk images of the search
\* specification), then read.
SpecRead == InitSearch /\ [][NextRead]_vars

\* C31: default_prompt_metadata returns the records of the cache with default
\* set and no other, each once, in the order they have in the cache, and the
\* cache is as it was before the call.
C31_DefaultsOfCacheInOrder ==
    last.op = "default_prompt_metadata" =>
        /\ metadata_cache.metadata = found.cached_metadata
        /\ \A i \in 1..Len(found.cached_metadata) :
              Occurrences(found.result, found.cached_metadata[i]) =
                  IF found.cached_metadata[i].default THEN 1 ELSE 0
        /\ \A i \in 1..Len(found.result) :
              Occurrences(found.cached_metadata, found.result[i]) = 1
        /\ \A i, j \in 1..Len(found.result) :
              i < j => \E k, l \in 1..Len(found.cached_metadata) :
                          /\ k < l
                          /\ found.cached_metadata[k] = found.result[i]
                          /\ found.cached_metadata[l] = found.result[j]

\* The call on a cache of three records, the second without the flag, returned
\* the first and the third.
C31_Witness ==
    /\ last.op = "default_prompt_metadata"
    /\ Len(found.cached_metadata) = 3
    /\ found.cached_metadata[1].default
    /\ ~found.cached_metadata[2].default
    /\ found.cached_metadata[3].default
    /\ found.result = <<found.cached_metadata[1], found.cached_metadata[3]>>

\* C32: id_for_title(t) returns the id of a record of the cache whose title is
\* exactly t, and None when the cache has no such record; the record is never
\* one without title, and it is the first with the title in the cache's list,
\* which no other record with the title was saved after.
C32_FirstWithExactTitle ==
    last.op = "id_for_title" =>
        LET list == found.cached_metadata
            with_title == {i \in 1..Len(list) :
                              IsSome(list[i].title) /\ Unwrap(list[i].title) = found.query}
        IN /\ with_title = {} <=> found.result = None
           /\ IsSome(found.result) =>
                 \E i \in with_title :
                    /\ list[i].id = Unwrap(found.result)
                    /\ \A j \in with_title : i <= j /\ list[j].saved_at <= list[i].saved_at

\* Two records have the title asked for, saved at different times, after a
\* record without title; the call returned the one saved last.
C32_Witness ==
    /\ last.op = "id_for_title"
    /\ found.query = <<"A">>
    /\ Len(found.cached_metadata) = 3
    /\ found.cached_metadata[1].title = None
    /\ found.cached_metadata[2].title = Some(<<"A">>)
    /\ found.cached_metadata[3].title = Some(<<"A">>)
    /\ found.cached_metadata[2].saved_at > found.cached_metadata[3].saved_at
    /\ found.result = Some(found.cached_metadata[2].id)

----------------------------------------------------------------------------
(* Claims about the slot of the save loop *)

\* C33: each call of PromptStore::save by the loop carries the edit submitted
\* last before the take, whatever was submitted while the loop was writing or
\* waiting; an edit replaced in the slot before the take is in no task and in
\* no committed transaction.
C33_OnlyLastPendingWritten ==
    /\ [][\A id \in UserIds :
             writes'[id] # writes[id] =>
                 writes'[id] = Append(writes[id], Len(submitted[id]))]_vars
    /\ [](\A id \in UserIds :
             /\ \A i \in 1..Len(commits[id]) :
                   \E j \in 1..Len(writes[id]) : writes[id][j] = commits[id][i]
             /\ \A t \in tasks :
                   (t.id = id /\ t.edit # 0) =>
                       \E j \in 1..Len(writes[id]) : writes[id][j] = t.edit)

\* Edits 2 and 3 were submitted after the loop took edit 1 and before its next
\* take: edits 1 and 3 were written and committed, edit 2 never was.
C33_Witness ==
    \E id \in UserIds :
        /\ Len(submitted[id]) = 3
        /\ writes[id] = <<1, 3>>
        /\ commits[id] = <<1, 3>>
        /\ Idle(id)

\* The slot of the editor of id.
Slot(id) == Unwrap(prompt_editors[id]).next_title_and_body_to_save

\* C34: while the save pipeline of id is idle, the slot of id is empty.
C34_IdleSlotEmpty ==
    \A id \in UserIds : Idle(id) => Slot(id) = None

\* An edit arrived while the loop waited for its timer; the loop took it,
\* wrote it, found the slot empty at its next take and left.
C34_Witness ==
    \E id \in UserIds :
        /\ Idle(id)
        /\ last.op = "loop_exit" /\ last.id = id
        /\ Len(submitted[id]) = 2
        /\ writes[id] = <<1, 2>>
        /\ submitted[id][2].at > submitted[id][1].at
        /\ Slot(id) = None

----------------------------------------------------------------------------
(* Claims about failed writes, the cache's two containers and the open      *)

\* C35: when the transaction of save(id, ..) has failed and no later call
\* touched id, the cache still holds the record the call inserted, in its map
\* and once in its list, and the metadata table does not hold that record.
C35_FailedSaveStaysCached ==
    (last.op = "task" /\ last.res = "Err" /\ last.task.kind = "save" /\ LastIsLatest) =>
        /\ metadata(last.id) = last.task.metadata
        /\ Occurrences(metadata_cache.metadata, Unwrap(last.task.metadata)) = 1
        /\ metadata_db[last.id] # last.task.metadata

\* The transaction of the first save of a new prompt has just failed: the
\* cache holds the prompt, the tables hold nothing for it.
C35_Witness ==
    /\ last.op = "task" /\ last.res = "Err" /\ last.task.kind = "save" /\ LastIsLatest
    /\ last.id = User("u1")
    /\ IsSome(metadata(last.id))
    /\ metadata_db[last.id] = None
    /\ bodies_db[last.id] = None
    /\ tasks = {}

\* C36: the list of the cache holds at most one record per identifier, and it
\* holds a record exactly when the map holds it for the record's identifier.
C36_ListMatchesMap ==
    opened =>
        /\ \A id \in PromptIds :
              Cardinality({i \in 1..Len(metadata_cache.metadata) :
                              metadata_cache.metadata[i].id = id})
                  = IF IsSome(metadata_cache.metadata_by_id[id]) THEN 1 ELSE 0
        /\ \A i \in 1..Len(metadata_cache.metadata) :
              metadata_cache.metadata_by_id[metadata_cache.metadata[i].id]
                  = Some(metadata_cache.metadata[i])

\* A prompt was saved twice (the second insert replaced the record of the
\* first) next to the two prompts found at the open.
C36_Witness ==
    /\ opened
    /\ last.op = "save" /\ last.id = User("u1")
    /\ \E t \in tasks : t.kind = "save" /\ t.id = User("u1") /\ t.at < latest[User("u1")]
    /\ Len(metadata_cache.metadata) = 3
    /\ Unwrap(metadata(User("u1"))).saved_at = latest[User("u1")]

\* C37: right after an open, the map of the cache is the metadata table as the
\* purge and the migration left it, and the list of the cache holds the
\* records of that table, each once, and nothing else; so every record the
\* migration wrote is in the cache.
C37_CacheIsTableAfterOpen ==
    (opened /\ last.op = "new") =>
        /\ \A id \in PromptIds :
              /\ metadata_cache.metadata_by_id[id] = metadata_db[id]
              /\ Cardinality({i \in 1..Len(metadata_cache.metadata) :
                                 metadata_db[id] = Some(metadata_cache.metadata[i])})
                     = IF IsSome(metadata_db[id]) THEN 1 ELSE 0
        /\ \A i \in 1..Len(metadata_cache.metadata) :
              metadata_db[metadata_cache.metadata[i].id] = Some(metadata_cache.metadata[i])
        /\ \A u \in Uuids :
              (metadata_db[User(u)] # before_run.metadata[User(u)]) =>
                  \E i \in 1..Len(metadata_cache.metadata) :
                      /\ metadata_cache.metadata[i].id = User(u)
                      /\ metadata_cache.metadata[i].title = Unwrap(metadata_v1_db.rows[u]).title
                      /\ metadata_cache.metadata[i].saved_at =
                             Unwrap(metadata_v1_db.rows[u]).saved_at

\* The open purged an EditWorkflow record and migrated a legacy prompt that
\* the v2 tables lacked: the cache holds the migrated record and no
\* EditWorkflow record.
C37_Witness ==
    /\ opened /\ last.op = "new" /\ last.res = "Ok"
    /\ IsSome(before_run.metadata[EditWorkflow])
    /\ \E u \in Uuids :
          /\ LegacyPrompt(u)
          /\ before_run.metadata[User(u)] = None
          /\ IsSome(metadata(User(u)))
          /\ metadata(User(u)) = metadata_db[User(u)]
    /\ metadata(EditWorkflow) = None

----------------------------------------------------------------------------
(* The default flag while the save loop runs *)

\* PromptLibrary::toggle_default_for_prompt: save_metadata with the title of
\* the cached record and its default flag negated; nothing when the cache has
\* no record for id.
toggle_default_for_prompt(id) ==
    IF IsSome(metadata(id))
    THEN LET prompt_metadata == Unwrap(metadata(id))
         IN save_metadata(id, prompt_metadata.title, ~prompt_metadata.default)
    ELSE UNCHANGED <<metadata_cache, tasks, clock, latest>>

\* The user toggles the default flag of a prompt of the library.
ToggleDefault ==
    /\ opened /\ CanSpawn /\ clock < MaxSavedAt + MaxCalls
    /\ \E id \in UserIds :
          /\ IsSome(metadata(id))
          /\ toggle_default_for_prompt(id)
          /\ last' = Step("toggle_default", id,
                          [title |-> Unwrap(metadata(id)).title,
                           default |-> ~Unwrap(metadata(id)).default, body |-> <<>>],
                          "", NoTask)
    /\ UNCHANGED <<opened, metadata_db, bodies_db, metadata_v1_db, bodies_v1_db>>
    /\ UNCHANGED <<libraryVars, upgradeVars, uiVars>>
    /\ UNCHANGED globalVars

NextToggle == NextDrain \/ ToggleDefault

\* The save loop of a prompt whose default flag is toggled meanwhile.
SpecToggle == InitCoalescer /\ [][NextToggle]_vars

\* C38: a call of PromptStore::save by the save loop leaves the default flag
\* of the cached record as it is (as toggle_default_for_prompt set it last).
C38_LoopWriteKeepsDefault ==
    [][\A id \in UserIds :
          (writes'[id] # writes[id] /\ IsSome(metadata(id))) =>
              /\ IsSome(metadata_cache'.metadata_by_id[id])
              /\ Unwrap(metadata_cache'.metadata_by_id[id]).default =
                     Unwrap(metadata(id)).default]_vars

----------------------------------------------------------------------------
(* The store closed and opened again *)

\* The process ends: the store goes with its cache and its executor, the
\* closures that have not run are dropped, and the LMDB environment at
\* db_path keeps its four tables for the next PromptStore::new.
Close ==
    /\ opened
    /\ opened' = FALSE
    /\ metadata_cache' = EmptyCache
    /\ tasks' = {}
    /\ UNCHANGED <<metadata_db, bodies_db, metadata_v1_db, bodies_v1_db,
                   clock, last, latest>>
    /\ UNCHANGED <<libraryVars, upgradeVars, uiVars>>
    /\ UNCHANGED globalVars

NextReopen == New \/ Save \/ Delete \/ TaskCommits \/ TaskFails \/ Close

\* The store written to, deleted from, closed and opened again, on the disk
\* images of Spec.
SpecReopen == Init /\ [][NextReopen]_vars

\* C39: when the last thing a store did before it was closed was to commit
\* delete(id) for a user prompt, the next open leaves id out of the metadata
\* table, the bodies table and the cache.
C39_DeletedStaysDeleted ==
    [][(~opened /\ opened'
        /\ last.op = "task" /\ last.res = "Ok" /\ last.task.kind = "delete"
        /\ ~is_built_in(last.id)) =>
           /\ metadata_db'[last.id] = None
           /\ bodies_db'[last.id] = None
           /\ metadata_cache'.metadata_by_id[last.id] = None]_vars

----------------------------------------------------------------------------
(* A delete issued while a write of the same identifier is pending *)

\* C40: once every closure has run without error, an identifier whose latest
\* call was delete (the cache holds no record for it) has no row in the
\* metadata table and none in the bodies table, whatever calls of save or
\* save_metadata were pending when delete was called and in whatever order
\* the closures committed.
C40_DeleteWinsOverPendingWrite ==
    (opened /\ AllWritesSucceeded) =>
        \A id \in UserIds :
            (latest[id] > 0 /\ metadata(id) = None) =>
                metadata_db[id] = None /\ bodies_db[id] = None

====
